---- MODULE Spec2Model ----
(***************************************************************************)
(* Derived-data cache of a Curves geometry (draw_cache_impl_curves):       *)
(* dirty tagging and validation, the batch request / create_requested      *)
(* pass, attribute reconciliation and the buffer-construction routines.    *)
(***************************************************************************)
EXTENDS Integers, Sequences, FiniteSets, TLC

VARIABLES curves, stale, now, ret, fill, build, requested_at, alt, edit, passes, frame

vars == <<curves, stale, now, ret, fill, build, requested_at, alt, edit, passes, frame>>
workVars == <<edit, passes, frame>>
frameVars == <<requested_at, alt, workVars>>
cacheVars == <<curves, stale, now, ret>>

(***************************************************************************)
(* Bounds of the model.                                                    *)
(***************************************************************************)
\* Number of attribute slots per tier (GPU_MAX_ATTR in the program).
MaxAttr == 2
\* Last frame time the clock reaches.
MaxTime == 3
\* U.vbotimeout: frames without a match after which attributes are evicted.
VboTimeout == 1
\* Largest number of points of one curve given to a fill routine.
MaxPoints == 3
\* Largest number of curves given to the offset and index buffer routines.
MaxCurves == 3

(***************************************************************************)
(* Program constants.                                                      *)
(***************************************************************************)
BKE_CURVES_BATCH_DIRTY_ALL == "BKE_CURVES_BATCH_DIRTY_ALL"

NULL == [null |-> TRUE]

(***************************************************************************)
(* Buffers and batches.  A slot of the cache holds a null pointer, a       *)
(* buffer that was allocated by a request but not filled yet, or a filled  *)
(* buffer; len is its record count, of the attribute it was filled from.   *)
(***************************************************************************)
NullBuf == [st |-> "null", len |-> 0, of |-> ""]
RequestedBuf == [st |-> "requested", len |-> 0, of |-> ""]
FilledBuf(n, a) == [st |-> "filled", len |-> n, of |-> a]

AttrIndex == 0 .. (MaxAttr - 1)

TopologySlots == {<<"proc_point_buf", 0>>, <<"proc_length_buf", 0>>,
                  <<"proc_strand_buf", 0>>, <<"proc_strand_seg_buf", 0>>}
ProcAttrSlots == {<<"proc_attributes_buf", i>> : i \in AttrIndex}
FinalAttrSlots == {<<"final.attributes_buf", i>> : i \in AttrIndex}
FinalSlots == {<<"final.proc_buf", 0>>, <<"final.proc_hairs", 0>>} \cup FinalAttrSlots
EvalSlots == TopologySlots \cup ProcAttrSlots \cup FinalSlots
EditBatches == {<<"edit_points", 0>>, <<"edit_handles", 0>>,
                <<"sculpt_cage", 0>>, <<"edit_curves_lines", 0>>}
EditBuffers == {<<"sculpt_cage_ibo", 0>>, <<"edit_points_pos", 0>>,
                <<"edit_points_data", 0>>, <<"edit_points_selection", 0>>,
                <<"edit_handles_ibo", 0>>, <<"edit_curves_lines_pos", 0>>,
                <<"edit_curves_lines_ibo", 0>>}
EditSlots == EditBatches \cup EditBuffers
Slots == EvalSlots \cup EditSlots

\* struct CurvesBatchCache, value-initialized.
CurvesBatchCache ==
  [buf |-> [s \in Slots |-> NullBuf],
   attr_used |-> <<>>,
   attr_used_over_time |-> <<>>,
   last_attr_matching_time |-> 0,
   hair_subdiv |-> 0,
   thickres |-> 0,
   resolution |-> 0,
   curves_num |-> 0,
   points_num |-> 0,
   is_dirty |-> FALSE]

(***************************************************************************)
(* Geometry: sizes of the evaluated / original curves data, and the        *)
(* generic attribute store (name -> domain).                               *)
(***************************************************************************)
Geometries ==
  { [points_num |-> 0, curves_num |-> 0, bezier_points_num |-> 0, bezier_curves_num |-> 0,
     cyclic_other_num |-> 0, evaluated_points_num |-> 0],
    [points_num |-> 4, curves_num |-> 2, bezier_points_num |-> 3, bezier_curves_num |-> 1,
     cyclic_other_num |-> 0, evaluated_points_num |-> 9] }

AttrNames == {"p", "q", "c", "x"}
\* "p" and "q" are stored on points, "c" on curves, "x" is not an attribute
\* of the geometry.
HasAttribute(name) == name \in {"p", "q", "c"}
AttrDomainOf(name) == IF name \in {"p", "q"} THEN "Point" ELSE "Curve"

(***************************************************************************)
(* Release macros: free the buffer if the pointer is set, then null it.    *)
(***************************************************************************)
GPU_DISCARD_SAFE(cv, S) ==
  [cv EXCEPT !.batch_cache.buf = [s \in Slots |-> IF s \in S THEN NullBuf ELSE @[s]],
             !.freed = @ \cup {s \in S : cv.batch_cache.buf[s].st # "null"}]

\* Allocation of a buffer into a slot, filled with n records taken from a.
GPU_CREATE(cv, s, n, a) ==
  [cv EXCEPT !.batch_cache.buf[s] = FilledBuf(n, a),
             !.made = @ \cup {s}, !.written = @ \cup {s}]

\* GPU_vertbuf_init_with_format + data_alloc / GPU_indexbuf_build_in_place on a
\* buffer that exists already: the buffer is filled where it is.
GPU_FILL(cv, s, n) ==
  [cv EXCEPT !.batch_cache.buf[s] = FilledBuf(n, ""), !.written = @ \cup {s}]

drw_attributes_clear_used(cv) == [cv EXCEPT !.batch_cache.attr_used = <<>>]

\* Variant: the final attribute buffers outlive the eviction.
discard_attributes_ProcOnly(cv) ==
  drw_attributes_clear_used(GPU_DISCARD_SAFE(cv, ProcAttrSlots))

discard_attributes(cv) ==
  drw_attributes_clear_used(GPU_DISCARD_SAFE(cv, ProcAttrSlots \cup FinalAttrSlots))

clear_edit_data(cv) == GPU_DISCARD_SAFE(cv, EditSlots)

clear_final_data(cv) == GPU_DISCARD_SAFE(cv, FinalSlots)

clear_eval_data(cv) ==
  discard_attributes(clear_final_data(GPU_DISCARD_SAFE(cv, TopologySlots)))

\* Variant: the edit tier is kept across a rebuild.
clear_batch_cache_KeepsEdit(cv) ==
  IF cv.batch_cache = NULL THEN cv ELSE clear_eval_data(cv)

clear_batch_cache(cv) ==
  IF cv.batch_cache = NULL THEN cv ELSE clear_edit_data(clear_eval_data(cv))

\* Variant: the test reads the flag with the other polarity.
batch_cache_is_dirty_Inverted(cv) ==
  cv.batch_cache # NULL /\ cv.batch_cache.is_dirty = TRUE

batch_cache_is_dirty(cv) ==
  cv.batch_cache # NULL /\ cv.batch_cache.is_dirty = FALSE

\* Variant: an existing cache keeps its eval cache, only the flag is reset.
init_batch_cache_NoReset(cv) ==
  IF cv.batch_cache = NULL
    THEN [cv EXCEPT !.batch_cache = CurvesBatchCache]
    ELSE [cv EXCEPT !.batch_cache.is_dirty = FALSE]

\* cache->eval_cache = {} overwrites every field of the eval cache without
\* releasing anything; the edit fields are left as they are.
init_batch_cache(cv) ==
  IF cv.batch_cache = NULL
    THEN [cv EXCEPT !.batch_cache = CurvesBatchCache]
    ELSE [cv EXCEPT !.batch_cache =
            [CurvesBatchCache EXCEPT
               !.buf = [s \in Slots |-> IF s \in EvalSlots THEN NullBuf
                                        ELSE cv.batch_cache.buf[s]]]]

DRW_curves_batch_cache_validate(cv) ==
  IF ~batch_cache_is_dirty(cv) THEN init_batch_cache(clear_batch_cache(cv)) ELSE cv

\* Variant: the cache is only created when missing, a tagged one is used as is.
get_batch_cache_CreateOnly(cv) ==
  IF cv.batch_cache = NULL THEN DRW_curves_batch_cache_validate(cv) ELSE cv

get_batch_cache(cv) == DRW_curves_batch_cache_validate(cv)

\* Variant: the tag releases the edit buffers right away.
DRW_curves_batch_cache_dirty_tag_Eager(cv, mode) ==
  IF cv.batch_cache = NULL THEN cv
  ELSE [clear_edit_data(cv) EXCEPT !.batch_cache.is_dirty = TRUE]

DRW_curves_batch_cache_dirty_tag(cv, mode) ==
  IF cv.batch_cache = NULL THEN cv
  ELSE IF mode = BKE_CURVES_BATCH_DIRTY_ALL
    THEN [cv EXCEPT !.batch_cache.is_dirty = TRUE]
    ELSE cv

\* Variant: the buffers are released but the cache object stays attached.
DRW_curves_batch_cache_free_KeepsObject(cv) == clear_batch_cache(cv)

DRW_curves_batch_cache_free(cv) ==
  [clear_batch_cache(cv) EXCEPT !.batch_cache = NULL]

(***************************************************************************)
(* Attribute request sets (DRW_Attributes): an ordered list of requests,   *)
(* at most MaxAttr of them, without duplicates.                            *)
(***************************************************************************)
Request(name) == [attribute_name |-> name, domain |-> AttrDomainOf(name)]

drw_attributes_has_request(attrs, req) == \E i \in 1 .. Len(attrs) : attrs[i] = req

drw_attributes_add_request(attrs, req) ==
  IF Len(attrs) >= MaxAttr \/ drw_attributes_has_request(attrs, req)
    THEN attrs
    ELSE Append(attrs, req)

RECURSIVE drw_attributes_merge(_, _)
drw_attributes_merge(dst, src) ==
  IF src = <<>> THEN dst
  ELSE drw_attributes_merge(drw_attributes_add_request(dst, Head(src)), Tail(src))

\* TRUE when every request of b is in a.
drw_attributes_overlap(a, b) ==
  \A i \in 1 .. Len(b) : drw_attributes_has_request(a, b[i])

\* A material: none, or the list of attribute names its shading network reads.
NoMaterial == [has |-> FALSE, attrs |-> <<>>]
Material(a) == [has |-> TRUE, attrs |-> a]
Materials == {NoMaterial} \cup
             {Material(a) : a \in {<<>>, <<"p">>, <<"c">>, <<"p", "c">>, <<"x">>, <<"c", "x">>}}

\* The requests derived from the material's attributes: a name found in the
\* curve or point store gives a request in that domain, a name found in
\* neither is skipped.
RECURSIVE attrs_needed(_)
attrs_needed(names) ==
  IF names = <<>> THEN <<>>
  ELSE LET rest == attrs_needed(Tail(names))
       IN IF HasAttribute(Head(names))
            THEN drw_attributes_merge(<<Request(Head(names))>>, rest)
            ELSE rest

ProcAttr(i) == <<"proc_attributes_buf", i>>
FinalAttr(i) == <<"final.attributes_buf", i>>

alloc_final_attribute_vbo(cv, index, name) ==
  GPU_CREATE(cv, FinalAttr(index),
             cv.batch_cache.resolution * cv.batch_cache.curves_num, name)

\* The values a lookup by name reads: those of the attribute, or the
\* default (0, 0, 0, 1) for every element when there is no such attribute.
lookup_or_default(name) == IF HasAttribute(name) THEN name ELSE "default"

ensure_control_point_attribute(cv, request, index) ==
  IF cv.batch_cache.buf[ProcAttr(index)].st # "null" THEN cv
  ELSE GPU_CREATE(GPU_DISCARD_SAFE(cv, {ProcAttr(index)}), ProcAttr(index),
                  IF request.domain = "Point" THEN cv.geometry.points_num
                                              ELSE cv.geometry.curves_num,
                  lookup_or_default(request.attribute_name))

\* Variant: a final buffer for every domain.
ensure_final_attribute_AllDomains(cv, request, index) ==
  LET c1 == ensure_control_point_attribute(cv, request, index)
      c2 == GPU_DISCARD_SAFE(c1, {FinalAttr(index)})
  IN alloc_final_attribute_vbo(c2, index, request.attribute_name)

ensure_final_attribute(cv, request, index) ==
  LET c1 == ensure_control_point_attribute(cv, request, index)
      c2 == GPU_DISCARD_SAFE(c1, {FinalAttr(index)})
  IN IF request.domain = "Point"
       THEN alloc_final_attribute_vbo(c2, index, request.attribute_name)
       ELSE c2

\* The loop over attr_used of ensure_attributes, from request i on.
RECURSIVE ensure_attributes_loop(_, _, _)
ensure_attributes_loop(cv, i, need_tf_update) ==
  IF i >= Len(cv.batch_cache.attr_used) THEN [cv |-> cv, need |-> need_tf_update]
  ELSE LET request == cv.batch_cache.attr_used[i + 1]
       IN IF cv.batch_cache.buf[FinalAttr(i)].st # "null"
            THEN ensure_attributes_loop(cv, i + 1, need_tf_update)
            ELSE ensure_attributes_loop(ensure_final_attribute(cv, request, i), i + 1,
                                        need_tf_update \/ request.domain = "Point")

\* Variant: the missing attributes are added without starting over.
ensure_attributes_Incremental(cv, gpu_material) ==
  LET needed == attrs_needed(gpu_material.attrs)
      c1 == [cv EXCEPT !.batch_cache.attr_used = drw_attributes_merge(@, needed)]
      c2 == [c1 EXCEPT !.batch_cache.attr_used_over_time = drw_attributes_merge(@, needed)]
  IN ensure_attributes_loop(IF gpu_material.has THEN c2 ELSE cv, 0, FALSE)

\* Variant: the derived set replaces attr_used.
ensure_attributes_Replaces(cv, gpu_material) ==
  LET needed == attrs_needed(gpu_material.attrs)
      c1 == IF ~drw_attributes_overlap(cv.batch_cache.attr_used, needed)
              THEN [GPU_DISCARD_SAFE(cv, ProcAttrSlots \cup FinalAttrSlots) EXCEPT
                      !.batch_cache.attr_used = needed]
              ELSE cv
      c2 == [c1 EXCEPT !.batch_cache.attr_used_over_time = drw_attributes_merge(@, needed)]
  IN ensure_attributes_loop(IF gpu_material.has THEN c2 ELSE cv, 0, FALSE)

ensure_attributes(cv, gpu_material) ==
  LET needed == attrs_needed(gpu_material.attrs)
      c1 == IF ~drw_attributes_overlap(cv.batch_cache.attr_used, needed)
              THEN [GPU_DISCARD_SAFE(cv, ProcAttrSlots \cup FinalAttrSlots) EXCEPT
                      !.batch_cache.attr_used = drw_attributes_merge(@, needed)]
              ELSE cv
      c2 == [c1 EXCEPT !.batch_cache.attr_used_over_time = drw_attributes_merge(@, needed)]
  IN ensure_attributes_loop(IF gpu_material.has THEN c2 ELSE cv, 0, FALSE)

\* Variant: the request goes to the front of attr_used.
request_attribute_Prepends(cv, name) ==
  LET c1 == get_batch_cache(cv)
  IN IF ~HasAttribute(name) THEN c1
     ELSE [c1 EXCEPT !.batch_cache.attr_used = drw_attributes_merge(<<Request(name)>>, @)]

request_attribute(cv, name) ==
  LET c1 == get_batch_cache(cv)
  IN IF ~HasAttribute(name) THEN c1
     ELSE [c1 EXCEPT !.batch_cache.attr_used = drw_attributes_merge(@, <<Request(name)>>)]

(***************************************************************************)
(* Procedural (topology) and final tiers.                                  *)
(***************************************************************************)
create_points_position_time_vbo(cv) ==
  GPU_CREATE(GPU_CREATE(cv, <<"proc_point_buf", 0>>, cv.batch_cache.points_num, ""),
             <<"proc_length_buf", 0>>, cv.batch_cache.curves_num, "")

create_curve_offsets_vbos(cv) ==
  GPU_CREATE(GPU_CREATE(cv, <<"proc_strand_buf", 0>>, cv.batch_cache.curves_num, ""),
             <<"proc_strand_seg_buf", 0>>, cv.batch_cache.curves_num, "")

max_ii(a, b) == IF a > b THEN a ELSE b

alloc_final_points_vbo(cv) ==
  GPU_CREATE(cv, <<"final.proc_buf", 0>>,
             max_ii(1, cv.batch_cache.resolution * cv.batch_cache.curves_num), "")

\* Strip primitives: resolution * thickness_res vertices per curve.
calc_final_indices(cv, thickness_res) ==
  GPU_CREATE(cv, <<"final.proc_hairs", 0>>,
             cv.batch_cache.resolution * thickness_res * cv.geometry.curves_num, "")

DRW_vbo_requested(cv, s) == cv.batch_cache.buf[s].st = "requested"

\* Variant: a settings change clears the whole eval cache.
ensure_settings_ClearsEval(cv, subdiv, thickness_res) ==
  IF cv.batch_cache.hair_subdiv # subdiv \/ cv.batch_cache.thickres # thickness_res
    THEN [clear_eval_data(cv) EXCEPT !.batch_cache.hair_subdiv = subdiv,
                                     !.batch_cache.thickres = thickness_res]
    ELSE cv

\* If the subdivision or indexing settings have changed, the final data is cleared.
ensure_settings(cv, subdiv, thickness_res) ==
  IF cv.batch_cache.hair_subdiv # subdiv \/ cv.batch_cache.thickres # thickness_res
    THEN [clear_final_data(cv) EXCEPT !.batch_cache.hair_subdiv = subdiv,
                                      !.batch_cache.thickres = thickness_res]
    ELSE cv

curves_ensure_procedural_data(cv, gpu_material, subdiv, thickness_res) ==
  LET c0 == get_batch_cache(cv)
      c1 == ensure_settings(c0, subdiv, thickness_res)
      c2 == [c1 EXCEPT !.batch_cache.curves_num = cv.geometry.curves_num,
                       !.batch_cache.points_num = cv.geometry.points_num,
                       !.batch_cache.resolution = 2 ^ (3 + subdiv)]
      new_points == c2.batch_cache.buf[<<"proc_point_buf", 0>>].st = "null"
                    \/ DRW_vbo_requested(c2, <<"proc_point_buf", 0>>)
      c3 == IF new_points THEN create_points_position_time_vbo(c2) ELSE c2
      c4 == IF c3.batch_cache.buf[<<"proc_strand_buf", 0>>].st = "null"
              THEN create_curve_offsets_vbos(c3) ELSE c3
      new_final == c4.batch_cache.buf[<<"final.proc_buf", 0>>].st = "null"
      c5 == IF new_final THEN alloc_final_points_vbo(c4) ELSE c4
      c6 == IF c5.batch_cache.buf[<<"final.proc_hairs", 0>>].st = "null"
              THEN calc_final_indices(c5, thickness_res) ELSE c5
      c7 == [c6 EXCEPT !.batch_cache.thickres = thickness_res]
      r == ensure_attributes(c7, gpu_material)
  IN [cv |-> r.cv, need |-> new_points \/ new_final \/ r.need]

\* Variant: the buffers go as soon as the timeout is reached.
DRW_curves_batch_cache_free_old_Early(cv, ctime) ==
  IF cv.batch_cache = NULL THEN cv
  ELSE LET c == cv.batch_cache
           last == IF drw_attributes_overlap(c.attr_used_over_time, c.attr_used)
                     THEN ctime ELSE c.last_attr_matching_time
           c1 == [cv EXCEPT !.batch_cache.last_attr_matching_time = last,
                            !.batch_cache.attr_used_over_time = <<>>]
       IN IF ctime - last >= VboTimeout THEN discard_attributes(c1) ELSE c1

\* Variant: the matching time is refreshed at every frame advance.
DRW_curves_batch_cache_free_old_AlwaysMatches(cv, ctime) ==
  IF cv.batch_cache = NULL THEN cv
  ELSE LET c == cv.batch_cache
           last == ctime
           c1 == [cv EXCEPT !.batch_cache.last_attr_matching_time = last,
                            !.batch_cache.attr_used_over_time = <<>>]
       IN IF ctime - last > VboTimeout THEN discard_attributes(c1) ELSE c1

DRW_curves_batch_cache_free_old(cv, ctime) ==
  IF cv.batch_cache = NULL THEN cv
  ELSE LET c == cv.batch_cache
           last == IF drw_attributes_overlap(c.attr_used_over_time, c.attr_used)
                     THEN ctime ELSE c.last_attr_matching_time
           c1 == [cv EXCEPT !.batch_cache.last_attr_matching_time = last,
                            !.batch_cache.attr_used_over_time = <<>>]
       IN IF ctime - last > VboTimeout THEN discard_attributes(c1) ELSE c1

(***************************************************************************)
(* Request / consume protocol of the batches and their buffers.            *)
(***************************************************************************)
\* Creates the batch when it is missing; a created batch holds no vertex
\* buffer yet, which is what marks it as requested.
DRW_batch_request(cv, b) ==
  IF cv.batch_cache.buf[b].st = "null"
    THEN [cv EXCEPT !.batch_cache.buf[b] = RequestedBuf, !.made = @ \cup {b}]
    ELSE cv

DRW_batch_requested(cv, b) == cv.batch_cache.buf[b].st = "requested"

\* Allocates the buffer when it is missing and attaches it to the batch,
\* which from then on holds a vertex buffer.
DRW_vbo_request(cv, b, v) ==
  LET c1 == IF cv.batch_cache.buf[v].st = "null"
              THEN [cv EXCEPT !.batch_cache.buf[v] = RequestedBuf, !.made = @ \cup {v}]
              ELSE cv
  IN [c1 EXCEPT !.batch_cache.buf[b] = FilledBuf(0, "")]

\* Allocates the index buffer when it is missing and sets it as the batch's
\* element buffer.
DRW_ibo_request(cv, b, i) ==
  IF cv.batch_cache.buf[i].st = "null"
    THEN [cv EXCEPT !.batch_cache.buf[i] = RequestedBuf, !.made = @ \cup {i}]
    ELSE cv

DRW_ibo_requested(cv, s) == cv.batch_cache.buf[s].st = "requested"

edit_points == <<"edit_points", 0>>
edit_handles == <<"edit_handles", 0>>
sculpt_cage == <<"sculpt_cage", 0>>
edit_curves_lines == <<"edit_curves_lines", 0>>
sculpt_cage_ibo == <<"sculpt_cage_ibo", 0>>
edit_points_pos == <<"edit_points_pos", 0>>
edit_points_data == <<"edit_points_data", 0>>
edit_points_selection == <<"edit_points_selection", 0>>
edit_handles_ibo == <<"edit_handles_ibo", 0>>
edit_curves_lines_pos == <<"edit_curves_lines_pos", 0>>
edit_curves_lines_ibo == <<"edit_curves_lines_ibo", 0>>

\* The three vertex buffers every edit batch draws from.
request_edit_points_vbos(cv, b) ==
  DRW_vbo_request(DRW_vbo_request(DRW_vbo_request(cv, b, edit_points_pos),
                                  b, edit_points_data),
                  b, edit_points_selection)

request_edit_points(cv) ==
  IF DRW_batch_requested(cv, edit_points)
    THEN request_edit_points_vbos(cv, edit_points) ELSE cv

request_sculpt_cage(cv) ==
  IF DRW_batch_requested(cv, sculpt_cage)
    THEN request_edit_points_vbos(DRW_ibo_request(cv, sculpt_cage, sculpt_cage_ibo),
                                  sculpt_cage)
    ELSE cv

request_edit_handles(cv) ==
  IF DRW_batch_requested(cv, edit_handles)
    THEN request_edit_points_vbos(DRW_ibo_request(cv, edit_handles, edit_handles_ibo),
                                  edit_handles)
    ELSE cv

request_edit_curves_lines(cv) ==
  IF DRW_batch_requested(cv, edit_curves_lines)
    THEN DRW_ibo_request(DRW_vbo_request(cv, edit_curves_lines, edit_curves_lines_pos),
                         edit_curves_lines, edit_curves_lines_ibo)
    ELSE cv

\* points + one restart index per curve.
create_lines_ibo_no_cyclic_len(g) == g.points_num + g.curves_num

\* The dispatcher on the cyclic flags, over the evaluated points.
create_lines_ibo_with_cyclic_len(g) ==
  IF g.cyclic_other_num = 0 THEN g.evaluated_points_num + g.curves_num
  ELSE g.evaluated_points_num + g.curves_num * 2

edit_points_size(g) == g.points_num + g.bezier_points_num * 2

calc_edit_handles_ibo_len(g) ==
  (g.points_num - g.bezier_points_num - (g.curves_num - g.bezier_curves_num)) * 2
  + g.cyclic_other_num * 2 + 4 * g.bezier_points_num

create_edit_points_position_and_data(cv) ==
  GPU_FILL(GPU_FILL(cv, edit_points_pos, edit_points_size(cv.geometry)),
           edit_points_data, edit_points_size(cv.geometry))

create_edit_points_selection(cv) ==
  GPU_FILL(cv, edit_points_selection, edit_points_size(cv.geometry))

create_edit_points_position_vbo(cv) ==
  GPU_FILL(cv, edit_curves_lines_pos, cv.geometry.evaluated_points_num)

\* The buffers in the requested state.
Requested(cv) == {s \in EditBuffers : cv.batch_cache.buf[s].st = "requested"}

\* Variant: the evaluated positions are rebuilt whenever their buffer exists.
create_requested_fill_Rebuilds(cv, edit_data_needed) ==
  LET g == cv.geometry
      c1 == IF DRW_ibo_requested(cv, sculpt_cage_ibo)
              THEN GPU_FILL(cv, sculpt_cage_ibo, create_lines_ibo_no_cyclic_len(g)) ELSE cv
      c2 == IF c1.batch_cache.buf[edit_curves_lines_pos].st # "null"
              THEN create_edit_points_position_vbo(c1) ELSE c1
      c3 == IF DRW_ibo_requested(c2, edit_curves_lines_ibo)
              THEN GPU_FILL(c2, edit_curves_lines_ibo, create_lines_ibo_with_cyclic_len(g))
              ELSE c2
      c4 == IF DRW_vbo_requested(c3, edit_points_pos)
              THEN create_edit_points_position_and_data(c3) ELSE c3
      c5 == IF DRW_vbo_requested(c4, edit_points_selection)
              THEN create_edit_points_selection(c4) ELSE c4
      c6 == IF DRW_ibo_requested(c5, edit_handles_ibo)
              THEN GPU_FILL(c5, edit_handles_ibo, calc_edit_handles_ibo_len(g)) ELSE c5
  IN IF ~edit_data_needed THEN c3 ELSE c6

\* The fill phase of the pass, once the requests are recorded.
create_requested_fill(cv, edit_data_needed) ==
  LET g == cv.geometry
      c1 == IF DRW_ibo_requested(cv, sculpt_cage_ibo)
              THEN GPU_FILL(cv, sculpt_cage_ibo, create_lines_ibo_no_cyclic_len(g)) ELSE cv
      c2 == IF DRW_vbo_requested(c1, edit_curves_lines_pos)
              THEN create_edit_points_position_vbo(c1) ELSE c1
      c3 == IF DRW_ibo_requested(c2, edit_curves_lines_ibo)
              THEN GPU_FILL(c2, edit_curves_lines_ibo, create_lines_ibo_with_cyclic_len(g))
              ELSE c2
      c4 == IF DRW_vbo_requested(c3, edit_points_pos)
              THEN create_edit_points_position_and_data(c3) ELSE c3
      c5 == IF DRW_vbo_requested(c4, edit_points_selection)
              THEN create_edit_points_selection(c4) ELSE c4
      c6 == IF DRW_ibo_requested(c5, edit_handles_ibo)
              THEN GPU_FILL(c5, edit_handles_ibo, calc_edit_handles_ibo_len(g)) ELSE c5
  IN IF ~edit_data_needed THEN c3 ELSE c6

\* Variant: the handles branch does not flag that edit data is needed.
is_edit_data_needed_NoHandles(cv) ==
  DRW_batch_requested(cv, edit_points) \/ DRW_batch_requested(cv, sculpt_cage)

\* TRUE when one of the batches drawing the edit points is requested.
is_edit_data_needed(cv) ==
  \/ DRW_batch_requested(cv, edit_points)
  \/ DRW_batch_requested(cv, sculpt_cage)
  \/ DRW_batch_requested(cv, edit_handles)

\* ob_orig is the original object, or absent when it cannot be resolved.
\* requested: the buffers found in the requested state once the requests of
\* the pass are recorded.
DRW_curves_batch_cache_create_requested(cv, ob_orig) ==
  IF ~ob_orig THEN [cv |-> cv, requested |-> {}]
  ELSE LET c0 == get_batch_cache(cv)
           c1 == request_edit_curves_lines(
                   request_edit_handles(request_sculpt_cage(request_edit_points(c0))))
       IN [cv |-> create_requested_fill(c1, is_edit_data_needed(c0)),
           requested |-> Requested(c1)]

\* One of the four batch getters.
DRW_curves_batch_cache_get(cv, b) == DRW_batch_request(get_batch_cache(cv), b)

DRW_curves_texture_for_evaluated_attribute(cv, name) ==
  LET c1 == request_attribute(get_batch_cache(cv), name)
      used == c1.batch_cache.attr_used
      found == {i \in 1 .. Len(used) : used[i].attribute_name = name}
      request_i == IF found = {} THEN -1
                   ELSE (CHOOSE i \in found : \A j \in found : i <= j) - 1
  IN IF request_i = -1 THEN [cv |-> c1, slots |-> {}, is_point_domain |-> FALSE]
     ELSE IF used[request_i + 1].domain = "Point"
       THEN [cv |-> c1, slots |-> {FinalAttr(request_i)}, is_point_domain |-> TRUE]
       ELSE [cv |-> c1, slots |-> {ProcAttr(request_i)}, is_point_domain |-> FALSE]

(***************************************************************************)
(* State machine of the cache.  curves is the geometry with its cache;     *)
(* stale is the set of slots whose buffer was built before the last dirty  *)
(* tag and has not been released since; ret is what the last call did for  *)
(* its caller: the slots it handed out or wrote, its boolean result and    *)
(* the slots it released.                                                  *)
(***************************************************************************)
Ret(op, slots, flag, freed) == [op |-> op, slots |-> slots, flag |-> flag, freed |-> freed]

\* Start of a call: the allocator log of the call (buffers freed, buffers
\* allocated, buffers written) is empty.
Call(c) == [geometry |-> c.geometry, batch_cache |-> c.batch_cache,
            freed |-> {}, made |-> {}, written |-> {}]
Begin == Call(curves)

\* The geometry and cache a call leaves behind.
End(cv) == [geometry |-> cv.geometry, batch_cache |-> cv.batch_cache]

NonNull(cv) == IF cv.batch_cache = NULL THEN {}
               ELSE {s \in Slots : cv.batch_cache.buf[s].st # "null"}

\* Inputs the specification of the whole cache draws from.
SpecBatches == {edit_points}
SpecMaterials == {NoMaterial, Material(<<"p", "c">>)}
SpecAttrNames == {"c", "x"}
\* <<subdiv, thickness_res>> arguments of curves_ensure_procedural_data.
SpecSettings == {<<0, 1>>, <<1, 1>>, <<0, 2>>}

\* No attribute was requested at a frame advance yet.
NeverRequested == [n \in AttrNames |-> 0 - 1]
\* No two consumers are taking turns.
NoAlternation == [sets |-> <<>>, turn |-> 0, advance |-> FALSE, settled |-> FALSE]

\* No edit buffer is being built.
NoEdit == [step |-> "none"]
\* No reconcile pass is under way.
NoPass == <<>>
\* No request of the current frame is on record: requested is the set of
\* attributes requested since the last frame advance, always the set of those
\* requested in every frame so far.
NoFrame == [requested |-> {}, always |-> AttrNames]

\* The geometry has no cache yet and nothing has been called.
InitIdle ==
  /\ curves = [geometry |-> CHOOSE g \in Geometries : g.points_num = 4,
               batch_cache |-> NULL]
  /\ stale = {}
  /\ now = 0
  /\ ret = Ret("init", {}, FALSE, {})
  /\ requested_at = NeverRequested
  /\ frame = NoFrame

InitCache ==
  /\ InitIdle
  /\ alt = NoAlternation
  /\ edit = NoEdit
  /\ passes = NoPass

\* No buffer-construction routine is running.
NoFill == [curve_positions |-> <<>>, posTime_data |-> <<>>, hairLength_data |-> <<>>,
           todo |-> {}]

\* No offset or index buffer is being built.
NoBuild == [points_by_curve |-> <<0>>, cyclic |-> <<>>, variant |-> "none",
            dispatched |-> FALSE, ibo_data |-> <<>>, todo |-> {},
            data_step |-> <<>>, seg_step |-> <<>>]

Init == InitCache /\ fill = NoFill /\ build = NoBuild

Validate ==
  LET r == DRW_curves_batch_cache_validate(Begin)
  IN /\ curves' = End(r)
     /\ stale' = stale \ r.freed
     /\ ret' = Ret("validate", {}, FALSE, r.freed)
     /\ UNCHANGED <<now, fill, build, frameVars>>

\* A change notification: the cache is tagged.
DirtyTag ==
  LET r == DRW_curves_batch_cache_dirty_tag(Begin, BKE_CURVES_BATCH_DIRTY_ALL)
  IN /\ curves' = End(r)
     /\ stale' = NonNull(curves) \ r.freed
     /\ ret' = Ret("dirty_tag", {}, FALSE, r.freed)
     /\ UNCHANGED <<now, fill, build, frameVars>>

Free ==
  LET r == DRW_curves_batch_cache_free(Begin)
  IN /\ curves' = End(r)
     /\ stale' = stale \ r.freed
     /\ ret' = Ret("free", {}, FALSE, r.freed)
     /\ UNCHANGED <<now, fill, build, frameVars>>

GetBatchOf(B) ==
  \E b \in B :
    LET r == DRW_curves_batch_cache_get(Begin, b)
    IN /\ curves' = End(r)
       /\ stale' = stale \ r.freed
       /\ ret' = Ret("get_batch", {b}, FALSE, r.freed)
       /\ UNCHANGED <<now, fill, build, frameVars>>

GetBatch == GetBatchOf(SpecBatches)

CreateRequested ==
  \E ob_orig \in BOOLEAN :
    LET r == DRW_curves_batch_cache_create_requested(Begin, ob_orig)
    IN /\ curves' = End(r.cv)
       /\ stale' = stale \ r.cv.freed
       /\ ret' = Ret("create_requested", r.cv.written, ob_orig, r.cv.freed)
       /\ UNCHANGED <<now, fill, build, frameVars>>

EnsureProceduralDataOf(M, S) ==
  \E m \in M, set \in S :
    LET r == curves_ensure_procedural_data(Begin, m, set[1], set[2])
    IN /\ curves' = End(r.cv)
       /\ stale' = stale \ r.cv.freed
       /\ ret' = Ret("ensure_procedural_data", EvalSlots \cap NonNull(r.cv), r.need,
                     r.cv.freed)
       /\ UNCHANGED <<now, fill, build, frameVars>>

EnsureProceduralData == EnsureProceduralDataOf(SpecMaterials, SpecSettings)

TextureForAttributeOf(N) ==
  \E name \in N :
    LET r == DRW_curves_texture_for_evaluated_attribute(Begin, name)
    IN /\ curves' = End(r.cv)
       /\ stale' = stale \ r.cv.freed
       /\ ret' = Ret("texture_for_evaluated_attribute", r.slots, r.is_point_domain,
                     r.cv.freed)
       /\ UNCHANGED <<now, fill, build, frameVars>>

TextureForAttribute == TextureForAttributeOf(SpecAttrNames)

\* A frame advance: the clock moves on and the eviction step runs.
FreeOld ==
  /\ now < MaxTime
  /\ now' = now + 1
  /\ LET r == DRW_curves_batch_cache_free_old(Begin, now')
     IN /\ curves' = End(r)
        /\ stale' = stale \ r.freed
        /\ ret' = Ret("free_old", {}, FALSE, r.freed)
  /\ UNCHANGED <<fill, build, frameVars>>

Next ==
  \/ Validate
  \/ DirtyTag
  \/ Free
  \/ GetBatch
  \/ CreateRequested
  \/ EnsureProceduralData
  \/ TextureForAttribute
  \/ FreeOld

Spec == Init /\ [][Next]_vars

(***************************************************************************)
(* The edit tier alone: every batch getter and the create_requested pass.  *)
(***************************************************************************)
GetEditBatch == GetBatchOf(EditBatches)

NextEdit ==
  \/ Validate
  \/ DirtyTag
  \/ Free
  \/ GetEditBatch
  \/ CreateRequested

SpecEdit == Init /\ [][NextEdit]_vars

(***************************************************************************)
(* The attribute tier alone: reconcile passes of several materials, the    *)
(* attribute texture request and frame advances.  Where it is tracked,     *)
(* requested_at[n] is the time of the last frame advance at which          *)
(* attribute n, still in attr_used, had been requested by a reconcile pass *)
(* since the advance before.                                               *)
(***************************************************************************)
AttrMaterials == {NoMaterial, Material(<<"p">>), Material(<<"q">>), Material(<<"c">>),
                  Material(<<"p", "c">>)}
AttrSettings == {<<0, 1>>, <<1, 1>>}
AttrTextureNames == {"q", "x"}
AttrSlots == ProcAttrSlots \cup FinalAttrSlots

NamesOf(attrs) == {attrs[i].attribute_name : i \in 1 .. Len(attrs)}
UsedNames(c) == IF c.batch_cache = NULL THEN {} ELSE NamesOf(c.batch_cache.attr_used)
OverTimeNames(c) ==
  IF c.batch_cache = NULL THEN {} ELSE NamesOf(c.batch_cache.attr_used_over_time)

\* The record of an attribute goes when the attribute leaves attr_used.
StillUsed(c) == [n \in AttrNames |-> IF n \in UsedNames(c) THEN requested_at[n] ELSE 0 - 1]

\* A reconcile pass; the record of the requests is kept where it is tracked.
ReconcileOf(M, S, tracked) ==
  \E m \in M, set \in S :
    LET r == curves_ensure_procedural_data(Begin, m, set[1], set[2])
    IN /\ curves' = End(r.cv)
       /\ stale' = stale \ r.cv.freed
       /\ ret' = Ret("ensure_procedural_data", r.cv.made \cap AttrSlots, r.need,
                     r.cv.freed \cap AttrSlots)
       /\ requested_at' = IF tracked THEN StillUsed(End(r.cv)) ELSE requested_at
       /\ UNCHANGED <<now, fill, build, alt, workVars>>

\* A frame advance at any later time.
FrameAdvanceOf(tracked) ==
  \E ctime \in now + 1 .. MaxTime :
    LET r == DRW_curves_batch_cache_free_old(Begin, ctime)
    IN /\ now' = ctime
       /\ curves' = End(r)
       /\ stale' = stale \ r.freed
       /\ ret' = Ret("free_old", {}, FALSE, r.freed)
       /\ requested_at' = IF ~tracked THEN requested_at
                          ELSE [n \in AttrNames |->
                                  IF n \notin UsedNames(End(r)) THEN 0 - 1
                                  ELSE IF n \in OverTimeNames(curves) THEN ctime
                                  ELSE requested_at[n]]
       /\ UNCHANGED <<fill, build, alt, workVars>>

AttrReconcile == ReconcileOf(AttrMaterials, AttrSettings, FALSE)

AttrTexture == TextureForAttributeOf(AttrTextureNames)

AttrFrameAdvance == FrameAdvanceOf(FALSE)

NextAttr == AttrReconcile \/ AttrTexture \/ AttrFrameAdvance

SpecAttr == Init /\ [][NextAttr]_vars

\* The attribute passes together with change notifications and validation.
NextSlots ==
  \/ Validate
  \/ DirtyTag
  \/ AttrReconcile
  \/ AttrTexture
  \/ AttrFrameAdvance

SpecSlots == Init /\ [][NextSlots]_vars

(***************************************************************************)
(* Requests frame by frame.  frame.requested is the set of attributes of   *)
(* the geometry requested since the last frame advance, by a reconcile     *)
(* pass or by the accessor; frame.always is the set of those requested in  *)
(* every frame so far.                                                     *)
(***************************************************************************)
FrameMaterials == {NoMaterial, Material(<<"p">>), Material(<<"p", "c">>)}
FrameTextureNames == {"q", "x"}

FrameReconcile ==
  \E m \in FrameMaterials :
    LET r == curves_ensure_procedural_data(Begin, m, 0, 1)
    IN /\ curves' = End(r.cv)
       /\ stale' = stale \ r.cv.freed
       /\ ret' = Ret("ensure_procedural_data", r.cv.made \cap AttrSlots, r.need,
                     r.cv.freed \cap AttrSlots)
       /\ frame' = [frame EXCEPT !.requested =
                      @ \cup (IF m.has THEN NamesOf(attrs_needed(m.attrs)) ELSE {})]
       /\ UNCHANGED <<now, fill, build, requested_at, alt, edit, passes>>

FrameTexture ==
  \E name \in FrameTextureNames :
    LET r == DRW_curves_texture_for_evaluated_attribute(Begin, name)
    IN /\ curves' = End(r.cv)
       /\ stale' = stale \ r.cv.freed
       /\ ret' = Ret("texture_for_evaluated_attribute", r.slots, r.is_point_domain,
                     r.cv.freed)
       /\ frame' = [frame EXCEPT !.requested = @ \cup {n \in {name} : HasAttribute(n)}]
       /\ UNCHANGED <<now, fill, build, requested_at, alt, edit, passes>>

FrameAdvance ==
  \E ctime \in now + 1 .. MaxTime :
    LET r == DRW_curves_batch_cache_free_old(Begin, ctime)
    IN /\ now' = ctime
       /\ curves' = End(r)
       /\ stale' = stale \ r.freed
       /\ ret' = Ret("free_old", {}, FALSE, r.freed)
       /\ frame' = [requested |-> {}, always |-> frame.always \cap frame.requested]
       /\ UNCHANGED <<fill, build, requested_at, alt, edit, passes>>

NextEveryFrame ==
  \/ Validate
  \/ DirtyTag
  \/ FrameReconcile
  \/ FrameTexture
  \/ FrameAdvance

SpecEveryFrame == Init /\ [][NextEveryFrame]_vars

\* The same passes on a geometry of any size, the empty one included.
InitSizes ==
  /\ \E g \in Geometries : curves = [geometry |-> g, batch_cache |-> NULL]
  /\ stale = {}
  /\ now = 0
  /\ ret = Ret("init", {}, FALSE, {})
  /\ requested_at = NeverRequested
  /\ frame = NoFrame
  /\ alt = NoAlternation
  /\ edit = NoEdit
  /\ passes = NoPass
  /\ fill = NoFill
  /\ build = NoBuild

SpecSizes == InitSizes /\ [][NextAttr]_vars

(***************************************************************************)
(* Two reconcile passes on the cache of one geometry, run by two consumers *)
(* at once.  A pass is ensure_attributes (overlap test, discard loop,      *)
(* merges, materialization loop) or request_attribute followed by the read *)
(* of the slot.  drw_attributes_merge takes render_mutex for the whole     *)
(* merge, so a merge is one step; nothing else is done under the mutex,    *)
(* and every other statement is a step of its own.  made is the set of     *)
(* buffers the pass has materialized for its own requests, lost tells that *)
(* one of them was discarded by the other pass before this pass returned.  *)
(***************************************************************************)
Pass(kind, needed) ==
  [kind |-> kind, needed |-> needed, pc |-> IF kind = "ensure" THEN "overlap" ELSE "request",
   i |-> 0, made |-> {}, lost |-> FALSE]

PassIndex == {1, 2}

\* What the first and the second consumer ask for.
FirstPasses == {Pass("ensure", attrs_needed(<<"p">>)), Pass("ensure", attrs_needed(<<"p", "c">>))}
SecondPasses == {Pass("ensure", attrs_needed(<<"c">>)), Pass("ensure", attrs_needed(<<"q">>)),
                 Pass("ensure", attrs_needed(<<"p">>)),
                 Pass("request", attrs_needed(<<"c">>)), Pass("request", attrs_needed(<<"q">>))}

\* The cache before the two passes: the one an earlier pass has left.
EarlierMaterials == {NoMaterial, Material(<<"p">>)}

InitConcurrent ==
  /\ \E m \in EarlierMaterials :
       curves = End(curves_ensure_procedural_data(
                      Call([geometry |-> CHOOSE g \in Geometries : g.points_num = 4,
                            batch_cache |-> NULL]), m, 0, 1).cv)
  /\ \E a \in FirstPasses, b \in SecondPasses : passes = <<a, b>>
  /\ stale = {}
  /\ now = 0
  /\ ret = Ret("init", {}, FALSE, {})
  /\ requested_at = NeverRequested
  /\ frame = NoFrame
  /\ alt = NoAlternation
  /\ edit = NoEdit
  /\ fill = NoFill
  /\ build = NoBuild

\* The passes after pass k has taken a step that released the buffers freed.
PassStep(k, own, freed) ==
  [j \in PassIndex |->
     IF j = k THEN own
     ELSE [passes[j] EXCEPT !.lost = @ \/ (passes[j].pc # "done" /\ passes[j].made \cap freed # {}),
                            !.made = @ \ freed]]

\* if (!drw_attributes_overlap(&final_cache.attr_used, &attrs_needed))
PassOverlap ==
  \E k \in PassIndex :
    /\ passes[k].pc = "overlap"
    /\ passes' = PassStep(k, [passes[k] EXCEPT !.pc =
                                IF drw_attributes_overlap(curves.batch_cache.attr_used,
                                                          passes[k].needed)
                                  THEN "merge_over_time" ELSE "discard"], {})
    /\ UNCHANGED <<curves, stale, now, ret, fill, build, requested_at, alt, edit, frame>>

\* Some new attributes have been added, free all and start over.
PassDiscard ==
  \E k \in PassIndex :
    LET r == GPU_DISCARD_SAFE(Begin, ProcAttrSlots \cup FinalAttrSlots)
    IN /\ passes[k].pc = "discard"
       /\ curves' = End(r)
       /\ stale' = stale \ r.freed
       /\ passes' = PassStep(k, [passes[k] EXCEPT !.pc = "merge", !.made = {}], r.freed)
       /\ UNCHANGED <<now, ret, fill, build, requested_at, alt, edit, frame>>

\* drw_attributes_merge(&final_cache.attr_used, &attrs_needed, cache.render_mutex)
PassMerge ==
  \E k \in PassIndex :
    /\ passes[k].pc = "merge"
    /\ curves' = [curves EXCEPT !.batch_cache.attr_used =
                                   drw_attributes_merge(@, passes[k].needed)]
    /\ passes' = PassStep(k, [passes[k] EXCEPT !.pc = "merge_over_time"], {})
    /\ UNCHANGED <<stale, now, ret, fill, build, requested_at, alt, edit, frame>>

\* drw_attributes_merge(&final_cache.attr_used_over_time, &attrs_needed, cache.render_mutex)
PassMergeOverTime ==
  \E k \in PassIndex :
    /\ passes[k].pc = "merge_over_time"
    /\ curves' = [curves EXCEPT !.batch_cache.attr_used_over_time =
                                   drw_attributes_merge(@, passes[k].needed)]
    /\ passes' = PassStep(k, [passes[k] EXCEPT !.pc = "loop", !.i = 0], {})
    /\ UNCHANGED <<stale, now, ret, fill, build, requested_at, alt, edit, frame>>

\* One iteration of the loop over attr_used.
PassLoop ==
  \E k \in PassIndex :
    LET i == passes[k].i
        request == curves.batch_cache.attr_used[i + 1]
        r == IF curves.batch_cache.buf[FinalAttr(i)].st # "null" THEN Begin
             ELSE ensure_final_attribute(Begin, request, i)
        mine == IF drw_attributes_has_request(passes[k].needed, request) THEN r.made ELSE {}
    IN /\ passes[k].pc = "loop"
       /\ i < Len(curves.batch_cache.attr_used)
       /\ curves' = End(r)
       /\ stale' = stale \ r.freed
       /\ passes' = PassStep(k, [passes[k] EXCEPT !.i = i + 1, !.made = (@ \ r.freed) \cup mine],
                             r.freed)
       /\ UNCHANGED <<now, ret, fill, build, requested_at, alt, edit, frame>>

\* return need_tf_update
PassReturn ==
  \E k \in PassIndex :
    /\ passes[k].pc = "loop"
    /\ passes[k].i >= Len(curves.batch_cache.attr_used)
    /\ passes' = PassStep(k, [passes[k] EXCEPT !.pc = "done"], {})
    /\ UNCHANGED <<curves, stale, now, ret, fill, build, requested_at, alt, edit, frame>>

\* request_attribute: the merge of the one request into attr_used.
PassRequest ==
  \E k \in PassIndex :
    LET r == request_attribute(Begin, passes[k].needed[1].attribute_name)
    IN /\ passes[k].pc = "request"
       /\ curves' = End(r)
       /\ stale' = stale \ r.freed
       /\ passes' = PassStep(k, [passes[k] EXCEPT !.pc = "fetch"], r.freed)
       /\ UNCHANGED <<now, ret, fill, build, requested_at, alt, edit, frame>>

\* The read of the slot of the request, and the return.
PassFetch ==
  \E k \in PassIndex :
    /\ passes[k].pc = "fetch"
    /\ passes' = PassStep(k, [passes[k] EXCEPT !.pc = "done"], {})
    /\ UNCHANGED <<curves, stale, now, ret, fill, build, requested_at, alt, edit, frame>>

NextConcurrent ==
  \/ PassOverlap \/ PassDiscard \/ PassMerge \/ PassMergeOverTime
  \/ PassLoop \/ PassReturn \/ PassRequest \/ PassFetch

SpecConcurrent == InitConcurrent /\ [][NextConcurrent]_vars

(***************************************************************************)
(* Eviction: reconcile passes and frame advances, with the time of the     *)
(* last request of every attribute on record.                              *)
(***************************************************************************)
EvictMaterials == {NoMaterial, Material(<<"p">>), Material(<<"c">>)}
EvictSettings == {<<0, 1>>}

EvictReconcile == ReconcileOf(EvictMaterials, EvictSettings, TRUE)

EvictFrameAdvance == FrameAdvanceOf(TRUE)

NextEvict == EvictReconcile \/ EvictFrameAdvance

SpecEvict == Init /\ [][NextEvict]_vars

\* Two consumers take turns frame after frame: one reconcile pass for the
\* attribute set whose turn it is, then one frame advance.
AlternateSets == {<<"p">>, <<"q">>, <<"c">>, <<"p", "c">>, <<"p", "q">>}
AlternateNames == NamesOf(attrs_needed(alt.sets[1])) \cup NamesOf(attrs_needed(alt.sets[2]))

\* The attributes that have their procedural buffer.
Materialized(c) ==
  IF c.batch_cache = NULL THEN {}
  ELSE {c.batch_cache.attr_used[i].attribute_name :
          i \in {j \in 1 .. Len(c.batch_cache.attr_used) :
                   c.batch_cache.buf[ProcAttr(j - 1)].st # "null"}}

InitAlternate ==
  /\ InitIdle
  /\ edit = NoEdit /\ passes = NoPass
  /\ \E a, b \in AlternateSets :
       alt = [sets |-> <<a, b>>, turn |-> 0, advance |-> FALSE, settled |-> FALSE]
  /\ fill = NoFill /\ build = NoBuild

AlternateReconcile ==
  /\ ~alt.advance
  /\ LET r == curves_ensure_procedural_data(Begin, Material(alt.sets[alt.turn + 1]), 0, 1)
     IN /\ curves' = End(r.cv)
        /\ stale' = stale \ r.cv.freed
        /\ ret' = Ret("ensure_procedural_data", r.cv.made \cap AttrSlots, r.need,
                      r.cv.freed \cap AttrSlots)
        /\ alt' = [alt EXCEPT !.advance = TRUE,
                              !.settled = @ \/ AlternateNames \subseteq Materialized(End(r.cv))]
  /\ UNCHANGED <<now, fill, build, requested_at, workVars>>

AlternateFrameAdvance ==
  /\ alt.advance
  /\ now < MaxTime
  /\ LET r == DRW_curves_batch_cache_free_old(Begin, now + 1)
     IN /\ now' = now + 1
        /\ curves' = End(r)
        /\ stale' = stale \ r.freed
        /\ ret' = Ret("free_old", {}, FALSE, r.freed)
        /\ alt' = [alt EXCEPT !.advance = FALSE, !.turn = 1 - @]
  /\ UNCHANGED <<fill, build, requested_at, workVars>>

NextAlternate == AlternateReconcile \/ AlternateFrameAdvance
SpecAlternate == InitAlternate /\ [][NextAlternate]_vars

(***************************************************************************)
(* Single-precision arithmetic.  A float is m * 2^e with 2^23 <= m < 2^24, *)
(* or zero; results are rounded to nearest, ties to even.  The lengths     *)
(* met here are integers below 128, which float holds exactly.             *)
(***************************************************************************)
F32Zero == [m |-> 0, e |-> 0]
F32One == [m |-> 2 ^ 23, e |-> -23]

\* Number of bits of n >= 1.
BitLen(n) == CHOOSE k \in 1 .. 31 : n \div (2 ^ (k - 1)) = 1

\* n / d rounded to the nearest integer, ties to even.
RoundDiv(n, d) ==
  LET q == n \div d
      r == n % d
  IN IF 2 * r > d \/ (2 * r = d /\ q % 2 = 1) THEN q + 1 ELSE q

\* The float nearest to the exact value p * 2^e.
F32Round(p, e) ==
  IF p = 0 THEN F32Zero
  ELSE LET b == BitLen(p)
       IN IF b <= 24 THEN [m |-> p * 2 ^ (24 - b), e |-> e - (24 - b)]
          ELSE LET q == RoundDiv(p, 2 ^ (b - 24))
               IN IF q = 2 ^ 24 THEN [m |-> 2 ^ 23, e |-> e + (b - 24) + 1]
                  ELSE [m |-> q, e |-> e + (b - 24)]

F32FromInt(n) == F32Round(n, 0)

\* 1.0f / len for an integer length len >= 1.
F32Recip(len) ==
  LET k == 23 + BitLen(len)
      q == RoundDiv(2 ^ k, len)
  IN IF q = 2 ^ 24 THEN [m |-> 2 ^ 23, e |-> 1 - k] ELSE [m |-> q, e |-> -k]

\* len * f for an integer length len and a float f.
F32MulInt(len, f) == F32Round(len * f.m, f.e)

F32LessEq(a, b) ==
  IF a.m = 0 THEN TRUE
  ELSE IF b.m = 0 THEN FALSE
  ELSE a.e < b.e \/ (a.e = b.e /\ a.m <= b.m)

(***************************************************************************)
(* fill_points_position_time_vbo.  The points lie on the x axis at integer *)
(* coordinates, so that every distance and every cumulative length is an   *)
(* integer; curve_positions[c] lists the coordinates of curve c.           *)
(***************************************************************************)
Coordinates == {0, 1, 41}
\* Numbers of curves of the geometries filled.
CurveCounts == {1, 2}

Abs(x) == IF x < 0 THEN -x ELSE x

\* math::distance of two points of the x axis.
distance(a, b) == Abs(a - b)

\* total_len after the first i points of a curve.
RECURSIVE cumulative_len(_, _)
cumulative_len(points, i) ==
  IF i <= 1 THEN 0
  ELSE cumulative_len(points, i - 1) + distance(points[i - 1], points[i])

\* points_by_curve[c].start(), for 1-based curve c, as a 0-based point index.
RECURSIVE curve_start(_, _)
curve_start(cp, c) == IF c <= 1 THEN 0 ELSE curve_start(cp, c - 1) + Len(cp[c - 1])

points_total(cp) == curve_start(cp, Len(cp) + 1)

\* The records one task writes for its curve: position and parameter of each
\* of its points, the parameter scaled by 1 / total_len when that is > 0.
curve_posTime(points) ==
  LET total_len == cumulative_len(points, Len(points))
      factor == F32Recip(total_len)
  IN [i \in 1 .. Len(points) |->
        [position |-> points[i],
         parameter |-> IF total_len > 0
                         THEN F32MulInt(cumulative_len(points, i), factor)
                         ELSE F32FromInt(cumulative_len(points, i))]]

\* Variant: every task writes from the first record on.
fill_points_position_time_vbo_FromFirst(f, c) ==
  LET points == f.curve_positions[c]
      start == 0
      rec == curve_posTime(points)
  IN [f EXCEPT
        !.posTime_data = [i \in 1 .. Len(f.posTime_data) |->
                            IF i > start /\ i <= start + Len(points)
                              THEN rec[i - start] ELSE @[i]],
        !.hairLength_data[c] = cumulative_len(points, Len(points)),
        !.todo = @ \ {c}]

\* The body of the parallel loop for curve c.
fill_points_position_time_vbo(f, c) ==
  LET points == f.curve_positions[c]
      start == curve_start(f.curve_positions, c)
      rec == curve_posTime(points)
  IN [f EXCEPT
        !.posTime_data = [i \in 1 .. Len(f.posTime_data) |->
                            IF i > start /\ i <= start + Len(points)
                              THEN rec[i - start] ELSE @[i]],
        !.hairLength_data[c] = cumulative_len(points, Len(points)),
        !.todo = @ \ {c}]

\* Storage as allocated, before it is written.
Unwritten == [position |-> -1, parameter |-> [m |-> -1, e |-> 0]]

CurveSet == UNION {[1 .. n -> Coordinates] : n \in 1 .. MaxPoints}
GeometrySet == UNION {[1 .. n -> CurveSet] : n \in CurveCounts}

InitPosTime ==
  /\ InitCache
  /\ \E cp \in GeometrySet :
       fill = [curve_positions |-> cp,
               posTime_data |-> [i \in 1 .. points_total(cp) |-> Unwritten],
               hairLength_data |-> [c \in 1 .. Len(cp) |-> -1],
               todo |-> 1 .. Len(cp)]
  /\ build = NoBuild

\* One task of the parallel loop: any curve not done yet.
FillCurve ==
  /\ \E c \in fill.todo : fill' = fill_points_position_time_vbo(fill, c)
  /\ UNCHANGED <<cacheVars, build, frameVars>>

NextPosTime == FillCurve

SpecPosTime == InitPosTime /\ [][NextPosTime]_vars

(***************************************************************************)
(* OffsetIndices: points_by_curve is the sequence of offsets, one more     *)
(* than there are curves; curves and points are numbered from 0 as in the  *)
(* code, and points_by_curve[c] is the IndexRange of curve c.              *)
(***************************************************************************)
IndexRange(start, size) == [start |-> start, size |-> size]
curves_num_of(offsets) == Len(offsets) - 1
total_size(offsets) == offsets[Len(offsets)]
points_of(offsets, c) == IndexRange(offsets[c + 1], offsets[c + 2] - offsets[c + 1])

\* The offsets of curves of the given sizes.
RECURSIVE accumulate_counts_to_offsets(_)
accumulate_counts_to_offsets(sizes) ==
  IF sizes = <<>> THEN <<0>>
  ELSE LET head == accumulate_counts_to_offsets(SubSeq(sizes, 1, Len(sizes) - 1))
       IN Append(head, head[Len(head)] + sizes[Len(sizes)])

\* gpu::RESTART_INDEX, 0xFFFFFFFF: the 32-bit pattern of -1.
RESTART_INDEX == 0 - 1
\* An index buffer slot nothing was written to.
UnwrittenIndex == 0 - 2

(***************************************************************************)
(* create_curve_offsets_vbos / fill_curve_offsets_vbos: one uint start and *)
(* one ushort segment count per curve, written in curve order.             *)
(***************************************************************************)
\* Store of an int into a ushort (16 bits).
to_ushort(x) == x % (2 ^ 16)

\* One iteration of the loop: curve i is the next one of both raw steps.
fill_curve_offsets_vbos(b) ==
  LET i == Len(b.data_step)
      points == points_of(b.points_by_curve, i)
  IN [b EXCEPT !.data_step = Append(@, points.start),
               !.seg_step = Append(@, to_ushort(points.size - 1))]

\* Point counts of the curves given to create_curve_offsets_vbos.
OffsetPointCounts == {1, 2, 2 ^ 16, 2 ^ 16 + 1}

InitOffsets ==
  /\ InitCache
  /\ fill = NoFill
  /\ \E n \in 1 .. MaxCurves : \E sizes \in [1 .. n -> OffsetPointCounts] :
       build = [NoBuild EXCEPT !.points_by_curve = accumulate_counts_to_offsets(sizes)]

FillCurveOffsets ==
  /\ Len(build.data_step) < curves_num_of(build.points_by_curve)
  /\ build' = fill_curve_offsets_vbos(build)
  /\ UNCHANGED <<cacheVars, fill, frameVars>>

NextOffsets == FillCurveOffsets

SpecOffsets == InitOffsets /\ [][NextOffsets]_vars

(***************************************************************************)
(* Line index buffers.  ibo_data is indexed from 0; every curve is one     *)
(* task of the parallel loop and the tasks run in any order.               *)
(***************************************************************************)
\* GPU_indexbuf_init + GPU_indexbuf_get_data: indices_num slots to write.
GPU_indexbuf_init(b, variant, indices_num) ==
  [b EXCEPT !.variant = variant,
            !.ibo_data = [i \in 0 .. indices_num - 1 |-> UnwrittenIndex],
            !.todo = 0 .. curves_num_of(b.points_by_curve) - 1]

create_lines_ibo_no_cyclic_init(b) ==
  GPU_indexbuf_init(b, "no_cyclic",
                    total_size(b.points_by_curve) + curves_num_of(b.points_by_curve))

create_lines_ibo_with_cyclic_init(b) ==
  GPU_indexbuf_init(b, "with_cyclic",
                    total_size(b.points_by_curve) + curves_num_of(b.points_by_curve) * 2)

\* Variant: the range of a curve starts at its first point.
create_lines_ibo_no_cyclic_task_Unshifted(b, curve) ==
  LET points == points_of(b.points_by_curve, curve)
      ibo_range == IndexRange(points.start, points.size + 1)
  IN [b EXCEPT
        !.ibo_data = [j \in DOMAIN b.ibo_data |->
                        IF j >= ibo_range.start /\ j < ibo_range.start + points.size
                          THEN points.start + (j - ibo_range.start)
                        ELSE IF j = ibo_range.start + ibo_range.size - 1 THEN RESTART_INDEX
                        ELSE @[j]],
        !.todo = @ \ {curve}]

\* The loop body of create_lines_ibo_no_cyclic for one curve.
create_lines_ibo_no_cyclic_task(b, curve) ==
  LET points == points_of(b.points_by_curve, curve)
      ibo_range == IndexRange(points.start + curve, points.size + 1)
  IN [b EXCEPT
        !.ibo_data = [j \in DOMAIN b.ibo_data |->
                        IF j >= ibo_range.start /\ j < ibo_range.start + points.size
                          THEN points.start + (j - ibo_range.start)
                        ELSE IF j = ibo_range.start + ibo_range.size - 1 THEN RESTART_INDEX
                        ELSE @[j]],
        !.todo = @ \ {curve}]

\* Variant: the loop is never closed.
create_lines_ibo_with_cyclic_task_Open(b, curve) ==
  LET points == points_of(b.points_by_curve, curve)
      ibo_range == IndexRange(points.start + curve * 2, points.size + 2)
  IN [b EXCEPT
        !.ibo_data = [j \in DOMAIN b.ibo_data |->
                        IF j >= ibo_range.start /\ j < ibo_range.start + points.size
                          THEN points.start + (j - ibo_range.start)
                        ELSE IF j = ibo_range.start + ibo_range.size - 2 THEN RESTART_INDEX
                        ELSE IF j = ibo_range.start + ibo_range.size - 1 THEN RESTART_INDEX
                        ELSE @[j]],
        !.todo = @ \ {curve}]

\* The loop body of create_lines_ibo_with_cyclic (Span overload) for one curve.
create_lines_ibo_with_cyclic_task(b, curve) ==
  LET points == points_of(b.points_by_curve, curve)
      ibo_range == IndexRange(points.start + curve * 2, points.size + 2)
  IN [b EXCEPT
        !.ibo_data = [j \in DOMAIN b.ibo_data |->
                        IF j >= ibo_range.start /\ j < ibo_range.start + points.size
                          THEN points.start + (j - ibo_range.start)
                        ELSE IF j = ibo_range.start + ibo_range.size - 2
                          THEN (IF b.cyclic[curve + 1] THEN points.start ELSE RESTART_INDEX)
                        ELSE IF j = ibo_range.start + ibo_range.size - 1 THEN RESTART_INDEX
                        ELSE @[j]],
        !.todo = @ \ {curve}]

\* array_utils::booleans_mix_calc on the flags of at least one curve.
booleans_mix_calc(cyclic) ==
  IF \A i \in DOMAIN cyclic : ~cyclic[i] THEN "AllFalse"
  ELSE IF \A i \in DOMAIN cyclic : cyclic[i] THEN "AllTrue"
  ELSE "Mixed"

\* Variant: the cheaper builder is taken whatever the flags.
create_lines_ibo_with_cyclic_dispatch_Always(b) ==
  create_lines_ibo_no_cyclic_init([b EXCEPT !.dispatched = TRUE])

\* create_lines_ibo_with_cyclic (VArray overload): the choice of the builder.
create_lines_ibo_with_cyclic_dispatch(b) ==
  IF booleans_mix_calc(b.cyclic) = "AllFalse"
    THEN create_lines_ibo_no_cyclic_init([b EXCEPT !.dispatched = TRUE])
    ELSE create_lines_ibo_with_cyclic_init([b EXCEPT !.dispatched = TRUE])

\* The whole Span overload, its tasks run in curve order from curve k on.
RECURSIVE create_lines_ibo_with_cyclic_from(_, _)
create_lines_ibo_with_cyclic_from(b, k) ==
  IF k >= curves_num_of(b.points_by_curve) THEN b
  ELSE create_lines_ibo_with_cyclic_from(create_lines_ibo_with_cyclic_task(b, k), k + 1)

create_lines_ibo_with_cyclic(b) ==
  create_lines_ibo_with_cyclic_from(create_lines_ibo_with_cyclic_init(b), 0)

InitLines ==
  /\ InitCache
  /\ fill = NoFill
  /\ \E n \in 1 .. MaxCurves :
       \E sizes \in [1 .. n -> 1 .. MaxPoints], cyclic \in [1 .. n -> BOOLEAN] :
         build = [NoBuild EXCEPT !.points_by_curve = accumulate_counts_to_offsets(sizes),
                                 !.cyclic = cyclic]

\* The sculpt cage builds its strip with the non-cyclic builder directly.
LinesNoCyclic ==
  /\ build.variant = "none"
  /\ build' = create_lines_ibo_no_cyclic_init(build)
  /\ UNCHANGED <<cacheVars, fill, frameVars>>

\* The edit curve lines go through the VArray overload.
LinesDispatch ==
  /\ build.variant = "none"
  /\ build' = create_lines_ibo_with_cyclic_dispatch(build)
  /\ UNCHANGED <<cacheVars, fill, frameVars>>

LinesTask ==
  /\ \E curve \in build.todo :
       build' = IF build.variant = "no_cyclic"
                  THEN create_lines_ibo_no_cyclic_task(build, curve)
                  ELSE create_lines_ibo_with_cyclic_task(build, curve)
  /\ UNCHANGED <<cacheVars, fill, frameVars>>

NextLines == LinesNoCyclic \/ LinesDispatch \/ LinesTask

SpecLines == InitLines /\ [][NextLines]_vars

\* The three parallel routines, each on its own geometry.
InitParallel == InitPosTime \/ InitLines

NextParallel == FillCurve \/ LinesNoCyclic \/ LinesDispatch \/ LinesTask

SpecParallel == InitParallel /\ [][NextParallel]_vars

(***************************************************************************)
(* Edit buffers of the original curves: position, bitfield and selection   *)
(* records of the points, followed by those of the left and of the right   *)
(* Bezier handles, and the handle wire index buffer.  Arrays are indexed   *)
(* from 0; a position is named by the array it was read from and the       *)
(* point, a selection value is 1 or 0.                                     *)
(***************************************************************************)
EDIT_CURVES_NURBS_CONTROL_POINT == 1
EDIT_CURVES_BEZIER_HANDLE == 2
EDIT_CURVES_ACTIVE_HANDLE == 4
EDIT_CURVES_BEZIER_KNOT == 8
EDIT_CURVES_HANDLE_TYPES_SHIFT == 4

\* Bit k of x, and the bitwise or of two bytes.
Bit(x, k) == (x \div (2 ^ k)) % 2
RECURSIVE BitOrFrom(_, _, _)
BitOrFrom(a, b, k) ==
  IF k > 7 THEN 0
  ELSE (IF Bit(a, k) = 1 \/ Bit(b, k) = 1 THEN 2 ^ k ELSE 0) + BitOrFrom(a, b, k + 1)
BitOr(a, b) == BitOrFrom(a, b, 0)

\* Variant: the selection is ignored.
bezier_data_value_NeverActive(handle_type, is_active) ==
  BitOr(handle_type * (2 ^ EDIT_CURVES_HANDLE_TYPES_SHIFT), EDIT_CURVES_BEZIER_HANDLE)

bezier_data_value(handle_type, is_active) ==
  BitOr(BitOr(handle_type * (2 ^ EDIT_CURVES_HANDLE_TYPES_SHIFT), EDIT_CURVES_BEZIER_HANDLE),
        IF is_active THEN EDIT_CURVES_ACTIVE_HANDLE ELSE 0)

\* IndexMask of the curves of one type, and of the other curves, in curve order.
indices_for_type(curve_types, type) ==
  SelectSeq([i \in 1 .. Len(curve_types) |-> i - 1], LAMBDA c : curve_types[c + 1] = type)
complement(curve_types, type) ==
  SelectSeq([i \in 1 .. Len(curve_types) |-> i - 1], LAMBDA c : curve_types[c + 1] # type)

\* The offsets of the selected curves laid out one after the other.
gather_selected_offsets(points_by_curve, mask) ==
  accumulate_counts_to_offsets([k \in 1 .. Len(mask) |-> points_of(points_by_curve, mask[k]).size])

\* Copies the group of every selected curve in src to its group in dst,
\* which starts at base.
gather_group_to_group(src_offsets, dst_offsets, mask, src, dst, base) ==
  [i \in DOMAIN dst |->
     LET hit == {k \in 1 .. Len(mask) :
                   /\ i - base >= dst_offsets[k]
                   /\ i - base < dst_offsets[k + 1]}
     IN IF hit = {} THEN dst[i]
        ELSE LET k == CHOOSE k \in hit : TRUE
             IN src[points_of(src_offsets, mask[k]).start + (i - base - dst_offsets[k])]]

bezier_curves_of(e) == indices_for_type(e.curve_types, "Bezier")
bezier_offsets_of(e) == gather_selected_offsets(e.points_by_curve, bezier_curves_of(e))
count_booleans(flags, S) == Cardinality({i \in S : flags[i]})
PointsIn(range) == range.start .. range.start + range.size - 1

\* Curves that are not Bezier curves: every point gets the fill value, with
\* the active flag when the curve has a selected point and is to be marked.
handle_other_curves(e, curve_i, fill_value, mark_active) ==
  LET points == points_of(e.points_by_curve, curve_i)
      is_active == mark_active /\ count_booleans(e.selection, PointsIn(points)) > 0
      data_value == BitOr(fill_value, IF is_active THEN EDIT_CURVES_ACTIVE_HANDLE ELSE 0)
  IN [e EXCEPT !.data = [i \in DOMAIN e.data |-> IF i \in PointsIn(points) THEN data_value
                                                 ELSE @[i]]]

\* Variant: the handle records follow the order of the points of all curves.
edit_data_bezier_point_BySourcePoint(e, src_i, dst_i, point) ==
  LET points_num == total_size(e.points_by_curve)
      bezier_point_count == total_size(bezier_offsets_of(e))
      dst_index == point % max_ii(1, bezier_point_count)
      is_active == e.selection[point] \/ e.selection_handle_left[point]
                   \/ e.selection_handle_right[point]
  IN [e EXCEPT
        !.data = [i \in DOMAIN e.data |->
                    IF i = point THEN EDIT_CURVES_BEZIER_KNOT
                    ELSE IF i = points_num + dst_index
                      THEN bezier_data_value(e.handle_types_left[point], is_active)
                    ELSE IF i = points_num + bezier_point_count + dst_index
                      THEN bezier_data_value(e.handle_types_right[point], is_active)
                    ELSE @[i]]]

\* One point of Bezier curve src_i, the dst_i-th Bezier curve.
edit_data_bezier_point(e, src_i, dst_i, point) ==
  LET points_num == total_size(e.points_by_curve)
      bezier_point_count == total_size(bezier_offsets_of(e))
      point_in_curve == point - points_of(e.points_by_curve, src_i).start
      dst_index == bezier_offsets_of(e)[dst_i + 1] + point_in_curve
      is_active == e.selection[point] \/ e.selection_handle_left[point]
                   \/ e.selection_handle_right[point]
  IN [e EXCEPT
        !.data = [i \in DOMAIN e.data |->
                    IF i = point THEN EDIT_CURVES_BEZIER_KNOT
                    ELSE IF i = points_num + dst_index
                      THEN bezier_data_value(e.handle_types_left[point], is_active)
                    ELSE IF i = points_num + bezier_point_count + dst_index
                      THEN bezier_data_value(e.handle_types_right[point], is_active)
                    ELSE @[i]]]

RECURSIVE edit_data_bezier_curve(_, _, _, _)
edit_data_bezier_curve(e, src_i, dst_i, point) ==
  LET points == points_of(e.points_by_curve, src_i)
  IN IF point >= points.start + points.size THEN e
     ELSE edit_data_bezier_curve(edit_data_bezier_point(e, src_i, dst_i, point),
                                 src_i, dst_i, point + 1)

\* foreach_curve_by_type: the curves of one type, in the order of their mask.
RECURSIVE foreach_curve_of_type(_, _, _, _)
foreach_curve_of_type(e, type, mask, k) ==
  IF k > Len(mask) THEN e
  ELSE LET src_i == mask[k]
           done == CASE type = "Bezier" ->
                          edit_data_bezier_curve(e, src_i, k - 1,
                                                 points_of(e.points_by_curve, src_i).start)
                     [] type = "Nurbs" ->
                          handle_other_curves(e, src_i, EDIT_CURVES_NURBS_CONTROL_POINT, TRUE)
                     [] OTHER -> handle_other_curves(e, src_i, 0, FALSE)
       IN foreach_curve_of_type(done, type, mask, k + 1)

RECURSIVE foreach_curve_by_type(_, _)
foreach_curve_by_type(e, types) ==
  IF types = <<>> THEN e
  ELSE foreach_curve_by_type(
         foreach_curve_of_type(e, Head(types), indices_for_type(e.curve_types, Head(types)), 1),
         Tail(types))

\* A record no routine has written.
UnwrittenRecord == <<"unwritten", 0>>

create_edit_points_position_and_data_fill(e) ==
  LET points_num == total_size(e.points_by_curve)
      bezier_point_count == total_size(bezier_offsets_of(e))
      size == points_num + bezier_point_count * 2
      pos0 == [i \in 0 .. size - 1 |-> IF i < points_num THEN <<"position", i>>
                                       ELSE UnwrittenRecord]
      e1 == foreach_curve_by_type(
              [e EXCEPT !.data = [i \in 0 .. size - 1 |-> UnwrittenIndex]],
              <<"CatmullRom", "Poly", "Bezier", "Nurbs">>)
      left == gather_group_to_group(e.points_by_curve, bezier_offsets_of(e),
                                    bezier_curves_of(e),
                                    [q \in 0 .. points_num - 1 |-> <<"handle_left", q>>],
                                    pos0, points_num)
      right == gather_group_to_group(e.points_by_curve, bezier_offsets_of(e),
                                     bezier_curves_of(e),
                                     [q \in 0 .. points_num - 1 |-> <<"handle_right", q>>],
                                     left, points_num + bezier_point_count)
  IN [e1 EXCEPT !.pos = IF bezier_point_count = 0 THEN pos0 ELSE right,
                !.step = "position_and_data"]

\* A boolean attribute read as a float.
selection_float(flags) == [q \in DOMAIN flags |-> IF flags[q] THEN 1 ELSE 0]

create_edit_points_selection_fill(e) ==
  LET points_num == total_size(e.points_by_curve)
      bezier_point_count == total_size(bezier_offsets_of(e))
      vert_count == points_num + bezier_point_count * 2
      data0 == [i \in 0 .. vert_count - 1 |->
                  IF i < points_num THEN selection_float(e.selection)[i] ELSE UnwrittenIndex]
      left == gather_group_to_group(e.points_by_curve, bezier_offsets_of(e),
                                    bezier_curves_of(e),
                                    selection_float(e.selection_handle_left),
                                    data0, points_num)
      right == gather_group_to_group(e.points_by_curve, bezier_offsets_of(e),
                                     bezier_curves_of(e),
                                     selection_float(e.selection_handle_right),
                                     left, points_num + bezier_point_count)
  IN [e EXCEPT !.sel = IF bezier_point_count = 0 THEN data0 ELSE right,
               !.step = "selection"]

\* GPU_indexbuf_add_line_verts on one of the two builders of the shared memory.
\* The cursor moves on even when the two indices fall outside the allocation;
\* twice tells that a slot written before was written again.
GPU_indexbuf_add_line_verts(b, right, v1, v2) ==
  LET at == IF right THEN b.right_len ELSE b.elb_len
      again == \E i \in {at, at + 1} : i \in DOMAIN b.data /\ b.data[i] # UnwrittenIndex
      data == [i \in DOMAIN b.data |-> IF i = at THEN v1 ELSE IF i = at + 1 THEN v2
                                       ELSE b.data[i]]
  IN IF right THEN [b EXCEPT !.data = data, !.right_len = at + 2, !.twice = @ \/ again]
     ELSE [b EXCEPT !.data = data, !.elb_len = at + 2, !.twice = @ \/ again]

\* Variant: the right handle is taken from the left handle block.
handles_ibo_bezier_point_LeftTwice(b, e, index_shift, point) ==
  LET point_left_i == index_shift + point
  IN GPU_indexbuf_add_line_verts(GPU_indexbuf_add_line_verts(b, FALSE, point_left_i, point),
                                 TRUE, point_left_i, point)

handles_ibo_bezier_point(b, e, index_shift, point) ==
  LET point_left_i == index_shift + point
      bezier_point_count == total_size(bezier_offsets_of(e))
  IN GPU_indexbuf_add_line_verts(GPU_indexbuf_add_line_verts(b, FALSE, point_left_i, point),
                                 TRUE, point_left_i + bezier_point_count, point)

RECURSIVE handles_ibo_bezier_curve(_, _, _, _, _)
handles_ibo_bezier_curve(b, e, src_i, dst_i, point) ==
  LET bezier_points == points_of(e.points_by_curve, src_i)
      index_shift == total_size(e.points_by_curve) - bezier_points.start
                     + bezier_offsets_of(e)[dst_i + 1]
  IN IF point >= bezier_points.start + bezier_points.size THEN b
     ELSE handles_ibo_bezier_curve(handles_ibo_bezier_point(b, e, index_shift, point),
                                   e, src_i, dst_i, point + 1)

RECURSIVE handles_ibo_bezier_curves(_, _, _)
handles_ibo_bezier_curves(b, e, k) ==
  LET mask == bezier_curves_of(e)
  IN IF k > Len(mask) THEN b
     ELSE handles_ibo_bezier_curves(
            handles_ibo_bezier_curve(b, e, mask[k], k - 1,
                                     points_of(e.points_by_curve, mask[k]).start),
            e, k + 1)

\* The segments between the consecutive points of a curve, from point on.
RECURSIVE handles_ibo_other_points(_, _, _)
handles_ibo_other_points(b, point, last) ==
  IF point >= last THEN b
  ELSE handles_ibo_other_points(GPU_indexbuf_add_line_verts(b, TRUE, point, point + 1),
                                point + 1, last)

handles_ibo_other_curve(b, e, src_i) ==
  LET curve_points == points_of(e.points_by_curve, src_i)
      first == curve_points.start
      last == curve_points.start + curve_points.size - 1
      b1 == handles_ibo_other_points(b, first, last)
  IN IF curve_points.size <= 1 THEN b
     ELSE IF e.cyclic[src_i + 1] /\ curve_points.size > 2
       THEN GPU_indexbuf_add_line_verts(b1, TRUE, first, last)
       ELSE b1

RECURSIVE handles_ibo_other_curves(_, _, _)
handles_ibo_other_curves(b, e, k) ==
  LET mask == complement(e.curve_types, "Bezier")
  IN IF k > Len(mask) THEN b
     ELSE handles_ibo_other_curves(handles_ibo_other_curve(b, e, mask[k]), e, k + 1)

calc_edit_handles_ibo(e) ==
  LET points_num == total_size(e.points_by_curve)
      bezier_point_count == total_size(bezier_offsets_of(e))
      other_curves == complement(e.curve_types, "Bezier")
      index_len_for_bezier_handles == 4 * bezier_point_count
      index_len_for_other_handles ==
        (points_num - bezier_point_count - Len(other_curves)) * 2
        + count_booleans(e.cyclic, {c + 1 : c \in {other_curves[k] : k \in 1 .. Len(other_curves)}}) * 2
      index_len == index_len_for_other_handles + index_len_for_bezier_handles
      b0 == [data |-> [i \in 0 .. index_len - 1 |-> UnwrittenIndex],
             elb_len |-> 0, right_len |-> 2 * bezier_point_count, twice |-> FALSE]
      b1 == handles_ibo_bezier_curves(b0, e, 1)
      b2 == handles_ibo_other_curves(b1, e, 1)
      joined == max_ii(b2.elb_len, b2.right_len)
  IN [e EXCEPT !.handles_ibo = [i \in 0 .. joined - 1 |->
                                  IF i \in DOMAIN b2.data THEN b2.data[i] ELSE UnwrittenIndex],
               !.index_len = index_len,
               !.elb_len = b2.elb_len,
               !.twice = b2.twice,
               !.step = "handles_ibo"]

\* The curves the edit geometries are made of.
EditCurveKinds ==
  {[type |-> "Bezier", size |-> 1, cyclic |-> FALSE],
   [type |-> "Bezier", size |-> 2, cyclic |-> TRUE],
   [type |-> "Poly", size |-> 1, cyclic |-> TRUE],
   [type |-> "Poly", size |-> 2, cyclic |-> TRUE],
   [type |-> "Poly", size |-> 3, cyclic |-> TRUE],
   [type |-> "CatmullRom", size |-> 3, cyclic |-> FALSE],
   [type |-> "Nurbs", size |-> 2, cyclic |-> FALSE],
   [type |-> "Nurbs", size |-> 3, cyclic |-> TRUE]}
EditCurveNums == {1, 2, 3}
\* Handle types of point q: left (h[1] + q) % 4, right (h[2] + q) % 4.
HandlePatterns == {<<0, 0>>, <<2, 1>>, <<1, 3>>, <<3, 2>>}
\* Selection of point q: the knot, the left and the right handle are
\* selected where bit 0, 1 and 2 of (s + q) % 8 are set.
SelectionPatterns == {0, 1, 3}

EditGeometry(kinds, h, s) ==
  LET offsets == accumulate_counts_to_offsets([c \in 1 .. Len(kinds) |-> kinds[c].size])
      P == 0 .. total_size(offsets) - 1
  IN [step |-> "geometry",
      curve_types |-> [c \in 1 .. Len(kinds) |-> kinds[c].type],
      points_by_curve |-> offsets,
      cyclic |-> [c \in 1 .. Len(kinds) |-> kinds[c].cyclic],
      handle_types_left |-> [q \in P |-> (h[1] + q) % 4],
      handle_types_right |-> [q \in P |-> (h[2] + q) % 4],
      selection |-> [q \in P |-> Bit((s + q) % 8, 0) = 1],
      selection_handle_left |-> [q \in P |-> Bit((s + q) % 8, 1) = 1],
      selection_handle_right |-> [q \in P |-> Bit((s + q) % 8, 2) = 1],
      pos |-> <<>>, data |-> <<>>, sel |-> <<>>, handles_ibo |-> <<>>, index_len |-> 0,
      elb_len |-> 0, twice |-> FALSE]

InitEditData ==
  /\ InitIdle
  /\ alt = NoAlternation /\ passes = NoPass
  /\ fill = NoFill /\ build = NoBuild
  /\ \E n \in EditCurveNums :
       \E kinds \in [1 .. n -> EditCurveKinds], h \in HandlePatterns, s \in SelectionPatterns :
         edit = EditGeometry(kinds, h, s)

\* The three edit routines run in the order of DRW_curves_batch_cache_create_requested.
EditPositionAndData ==
  /\ edit.step = "geometry"
  /\ edit' = create_edit_points_position_and_data_fill(edit)
  /\ UNCHANGED <<cacheVars, fill, build, requested_at, alt, passes, frame>>

EditSelection ==
  /\ edit.step = "position_and_data"
  /\ edit' = create_edit_points_selection_fill(edit)
  /\ UNCHANGED <<cacheVars, fill, build, requested_at, alt, passes, frame>>

EditHandlesIbo ==
  /\ edit.step = "selection"
  /\ edit' = calc_edit_handles_ibo(edit)
  /\ UNCHANGED <<cacheVars, fill, build, requested_at, alt, passes, frame>>

NextEditData == EditPositionAndData \/ EditSelection \/ EditHandlesIbo

SpecEditData == InitEditData /\ [][NextEditData]_vars

\* Geometries for the index builders alone: curves without points included.
HandleCurveKinds ==
  {[type |-> "Bezier", size |-> 0, cyclic |-> FALSE],
   [type |-> "Bezier", size |-> 2, cyclic |-> FALSE],
   [type |-> "Poly", size |-> 0, cyclic |-> FALSE],
   [type |-> "Poly", size |-> 1, cyclic |-> TRUE],
   [type |-> "Poly", size |-> 2, cyclic |-> TRUE],
   [type |-> "Poly", size |-> 3, cyclic |-> TRUE],
   [type |-> "Nurbs", size |-> 3, cyclic |-> FALSE]}

InitHandles ==
  /\ InitIdle
  /\ alt = NoAlternation /\ passes = NoPass
  /\ fill = NoFill /\ build = NoBuild
  /\ \E n \in EditCurveNums :
       \E kinds \in [1 .. n -> HandleCurveKinds] : edit = EditGeometry(kinds, <<0, 0>>, 0)

SpecHandles == InitHandles /\ [][NextEditData]_vars

(***************************************************************************)
(* Properties of dirty tagging, validation and the cache lifecycle.        *)
(***************************************************************************)
Cache == curves.batch_cache
Tiers == {TopologySlots, FinalSlots, ProcAttrSlots, EditSlots}

\* C1: validate on a geometry without cache, or whose cache is tagged dirty,
\* returns with a cache that is not dirty, in which every buffer and batch
\* of every tier has been released and is null, and whose attr_used and
\* attr_used_over_time are empty.
C1_ValidateRebuildsDirty ==
  (Cache = NULL \/ Cache.is_dirty) =>
    LET r == DRW_curves_batch_cache_validate(Begin)
    IN /\ r.batch_cache # NULL
       /\ r.batch_cache.is_dirty = FALSE
       /\ \A s \in Slots : r.batch_cache.buf[s] = NullBuf
       /\ r.freed = NonNull(curves)
       /\ r.made = {}
       /\ r.batch_cache.attr_used = <<>>
       /\ r.batch_cache.attr_used_over_time = <<>>

\* validate has just rebuilt a tagged cache that held buffers in every tier.
C1_Witness ==
  /\ ret.op = "validate"
  /\ \A T \in Tiers : ret.freed \cap T # {}
  /\ Cache # NULL /\ ~Cache.is_dirty
  /\ NonNull(curves) = {}
  /\ Cache.attr_used = <<>> /\ Cache.attr_used_over_time = <<>>

\* C2: on a cache that exists and is not dirty, validate frees nothing and
\* changes no field; and from every state a second validate leaves what the
\* first one left.
C2_ValidateIdempotent ==
  LET r == DRW_curves_batch_cache_validate(Begin)
      rr == DRW_curves_batch_cache_validate(Call(End(r)))
  IN /\ (Cache # NULL /\ ~Cache.is_dirty) =>
          /\ End(r) = curves
          /\ r.freed = {} /\ r.made = {} /\ r.written = {}
     /\ End(rr) = End(r)
     /\ rr.freed = {} /\ rr.made = {} /\ rr.written = {}

\* validate has just run on a clean cache with buffers, attributes, changed
\* settings and a recorded matching time, and all of it is still there.
C2_Witness ==
  /\ ret.op = "validate"
  /\ Cache # NULL /\ ~Cache.is_dirty
  /\ TopologySlots \subseteq NonNull(curves)
  /\ NonNull(curves) \cap EditSlots # {}
  /\ Cache.attr_used # <<>>
  /\ Cache.hair_subdiv = 1
  /\ Cache.last_attr_matching_time > 0

\* C3: the dirty tag with mode ALL sets is_dirty on every existing cache,
\* whatever it held, frees nothing and changes no other field, creates no
\* cache where there is none, and the validate that follows releases every
\* buffer and reinitializes the cache.
C3_DirtyTagSetsFlagOnly ==
  LET t == DRW_curves_batch_cache_dirty_tag(Begin, BKE_CURVES_BATCH_DIRTY_ALL)
      v == DRW_curves_batch_cache_validate(Call(End(t)))
  IN /\ t.freed = {} /\ t.made = {} /\ t.written = {}
     /\ Cache = NULL => t.batch_cache = NULL
     /\ Cache # NULL =>
          /\ t.batch_cache = [Cache EXCEPT !.is_dirty = TRUE]
          /\ v.batch_cache = CurvesBatchCache
          /\ v.freed = NonNull(curves)

\* The tag has just been set on a cache that holds buffers in the eval and
\* the edit tier; they are all still in place.
C3_Witness ==
  /\ ret.op = "dirty_tag"
  /\ Cache # NULL /\ Cache.is_dirty
  /\ ret.freed = {}
  /\ TopologySlots \subseteq NonNull(curves)
  /\ NonNull(curves) \cap EditSlots # {}
  /\ stale = NonNull(curves)

AccessorOps == {"get_batch", "create_requested", "ensure_procedural_data",
                "texture_for_evaluated_attribute"}

\* C4: whenever the cache exists and is not dirty it holds no buffer built
\* before a dirty tag; and every accessor that went past its early return
\* leaves a cache that exists, is not dirty, and of which no buffer (handed
\* out, filled or kept) was built before the last tag.
C4_AccessOnlyValidCache ==
  /\ (Cache # NULL /\ ~Cache.is_dirty) => stale = {}
  /\ (ret.op \in AccessorOps /\ ~(ret.op = "create_requested" /\ ~ret.flag)) =>
        /\ Cache # NULL
        /\ ~Cache.is_dirty
        /\ stale = {}
        /\ ret.slots \cap stale = {}

\* A batch getter has just run on a tagged cache: it released the buffers
\* built before the tag and handed out a batch of the rebuilt cache.
C4_Witness ==
  /\ ret.op = "get_batch"
  /\ ret.freed \cap TopologySlots # {}
  /\ ret.freed \cap EditSlots # {}
  /\ ret.slots \subseteq NonNull(curves)
  /\ stale = {}

\* C5: free releases every buffer and leaves the geometry without cache,
\* also when there was none; the validate of the next access then creates
\* a fresh cache; and on a geometry without cache only validate creates one
\* (the tag, the eviction step and a pass that returns early do not).
C5_Lifecycle ==
  LET f == DRW_curves_batch_cache_free(Begin)
      a == DRW_curves_batch_cache_validate(Call(End(f)))
  IN /\ f.batch_cache = NULL
     /\ f.freed = NonNull(curves) /\ f.made = {}
     /\ a.batch_cache = CurvesBatchCache
     /\ a.freed = {}
     /\ Cache = NULL =>
          /\ DRW_curves_batch_cache_dirty_tag(Begin, BKE_CURVES_BATCH_DIRTY_ALL).batch_cache
               = NULL
          /\ \A t \in 0 .. MaxTime : DRW_curves_batch_cache_free_old(Begin, t).batch_cache = NULL
          /\ DRW_curves_batch_cache_create_requested(Begin, FALSE).cv.batch_cache = NULL
          /\ DRW_curves_batch_cache_validate(Begin).batch_cache = CurvesBatchCache

\* free has just released a cache that held eval and edit buffers.
C5_Witness ==
  /\ ret.op = "free"
  /\ Cache = NULL
  /\ ret.freed \cap TopologySlots # {}
  /\ ret.freed \cap EditSlots # {}

\* C6: when curves_ensure_procedural_data is called on a clean cache with a
\* subdivision or thickness resolution other than the cached one, the final
\* buffers are released and rebuilt for the new settings, no topology or
\* edit buffer is released or changed, and the call differs from the same
\* call with the cached settings only in the final tier: the topology
\* buffers, the procedural attribute buffers, attr_used and the edit tier
\* come out the same (unchanged from before when the material asks for no
\* new attribute).
C6_SettingsChangeClearsFinalOnly ==
  (Cache # NULL /\ ~Cache.is_dirty) =>
    \A m \in Materials, set \in SpecSettings :
      (Cache.hair_subdiv # set[1] \/ Cache.thickres # set[2]) =>
        LET r == curves_ensure_procedural_data(Begin, m, set[1], set[2]).cv
            k == curves_ensure_procedural_data(Begin, m, Cache.hair_subdiv, Cache.thickres).cv
            rest == TopologySlots \cup ProcAttrSlots \cup EditSlots
        IN /\ NonNull(curves) \cap FinalSlots \subseteq r.freed
           /\ {<<"final.proc_buf", 0>>, <<"final.proc_hairs", 0>>} \subseteq r.made
           /\ r.batch_cache.buf[<<"final.proc_buf", 0>>] =
                FilledBuf(max_ii(1, 2 ^ (3 + set[1]) * curves.geometry.curves_num), "")
           /\ \A i \in AttrIndex :
                (i < Len(r.batch_cache.attr_used)
                 /\ r.batch_cache.attr_used[i + 1].domain = "Point") => FinalAttr(i) \in r.made
           /\ r.freed \cap (TopologySlots \cup EditSlots) = {}
           /\ \A s \in (TopologySlots \cap NonNull(curves)) \cup EditSlots :
                r.batch_cache.buf[s] = Cache.buf[s] /\ s \notin r.made
           /\ \A s \in rest :
                /\ r.batch_cache.buf[s] = k.batch_cache.buf[s]
                /\ (s \in r.freed) = (s \in k.freed)
                /\ (s \in r.made) = (s \in k.made)
           /\ r.batch_cache.attr_used = k.batch_cache.attr_used
           /\ drw_attributes_overlap(Cache.attr_used, attrs_needed(m.attrs)) =>
                /\ r.batch_cache.attr_used = Cache.attr_used
                /\ r.freed \cap ProcAttrSlots = {}
                /\ \A s \in ProcAttrSlots \cap NonNull(curves) :
                     r.batch_cache.buf[s] = Cache.buf[s] /\ s \notin r.made

\* curves_ensure_procedural_data has just run with changed settings on a
\* clean cache holding topology, attribute and edit buffers: it released
\* final buffers only, and the other tiers are in place.
C6_Witness ==
  /\ ret.op = "ensure_procedural_data"
  /\ <<"final.proc_buf", 0>> \in ret.freed
  /\ FinalAttr(0) \in ret.freed
  /\ ret.freed \subseteq FinalSlots
  /\ TopologySlots \subseteq NonNull(curves)
  /\ ProcAttr(0) \in NonNull(curves)
  /\ NonNull(curves) \cap EditSlots # {}

\* C7 as stated: a change notification followed by the next validate leaves
\* the edit-tier buffers in place.
C7_EditTierSurvivesChange ==
  Cache # NULL =>
    LET t == DRW_curves_batch_cache_dirty_tag(Begin, BKE_CURVES_BATCH_DIRTY_ALL)
        v == DRW_curves_batch_cache_validate(Call(End(t)))
    IN \A s \in EditSlots : v.batch_cache.buf[s] = Cache.buf[s]

\* C7 amended: the dirty tag (mode ALL, the only notification) invalidates
\* nothing by itself, and the validate that follows discards the topology,
\* final, attribute and edit tiers together: no tier survives.
C7_TiersInvalidatedTogether ==
  Cache # NULL =>
    LET t == DRW_curves_batch_cache_dirty_tag(Begin, BKE_CURVES_BATCH_DIRTY_ALL)
        v == DRW_curves_batch_cache_validate(Call(End(t)))
    IN /\ \A s \in Slots : t.batch_cache.buf[s] = Cache.buf[s]
       /\ \A T \in Tiers :
            /\ NonNull(curves) \cap T \subseteq v.freed
            /\ NonNull(v) \cap T = {}

\* validate has just discarded edit-tier buffers together with topology and
\* final buffers.
C7_Witness ==
  /\ ret.op = "validate"
  /\ ret.freed \cap EditBuffers # {}
  /\ ret.freed \cap TopologySlots # {}
  /\ <<"final.proc_buf", 0>> \in ret.freed
  /\ NonNull(curves) \cap EditSlots = {}

(***************************************************************************)
(* Properties of the request / consume protocol.                           *)
(***************************************************************************)
\* The buffers each batch asks for in the create_requested pass.
BatchBuffers(b) ==
  IF b = edit_points THEN {edit_points_pos, edit_points_data, edit_points_selection}
  ELSE IF b = sculpt_cage
    THEN {sculpt_cage_ibo, edit_points_pos, edit_points_data, edit_points_selection}
  ELSE IF b = edit_handles
    THEN {edit_handles_ibo, edit_points_pos, edit_points_data, edit_points_selection}
  ELSE {edit_curves_lines_pos, edit_curves_lines_ibo}

\* C8: in a create_requested pass every buffer that is written was put in
\* the requested state by a request of that pass, and every edit buffer that
\* is not in the requested state comes out of the pass as it went in.
C8_OnlyRequestedBuffersWritten ==
  \A ob_orig \in BOOLEAN :
    LET pass == DRW_curves_batch_cache_create_requested(Begin, ob_orig)
        r == pass.cv
        before == IF ob_orig THEN get_batch_cache(Begin) ELSE Begin
    IN /\ r.written \subseteq EditBuffers
       /\ r.written \subseteq pass.requested
       /\ pass.requested \subseteq r.made
       /\ r.batch_cache # NULL =>
            \A s \in EditBuffers \ pass.requested :
              r.batch_cache.buf[s] = before.batch_cache.buf[s]

\* A pass has just filled the three buffers of the edit points batch, the
\* only batch requested, and left the index buffers nobody asked for null.
C8_Witness ==
  /\ ret.op = "create_requested"
  /\ ret.slots = {edit_points_pos, edit_points_data, edit_points_selection}
  /\ \A s \in ret.slots : Cache.buf[s].st = "filled"
  /\ \A s \in EditBuffers \ ret.slots : Cache.buf[s] = NullBuf

\* C9: no buffer is ever left requested but unfilled: none is in the
\* requested state between calls, every batch that holds vertex buffers has
\* all the buffers it asks for filled, and a create_requested pass returns
\* with every buffer it found requested filled and, unless it returned
\* because the original object is missing, with no batch left requested.
C9_NoPartialResults ==
  /\ Cache # NULL =>
       /\ Requested(curves) = {}
       /\ \A b \in EditBatches :
            Cache.buf[b].st = "filled" =>
              \A s \in BatchBuffers(b) : Cache.buf[s].st = "filled"
  /\ \A ob_orig \in BOOLEAN :
       LET pass == DRW_curves_batch_cache_create_requested(Begin, ob_orig)
           r == pass.cv
       IN r.batch_cache # NULL =>
            /\ \A s \in pass.requested : r.batch_cache.buf[s].st = "filled"
            /\ Requested(r) = {}
            /\ ob_orig =>
                 \A b \in EditBatches :
                   /\ r.batch_cache.buf[b].st # "requested"
                   /\ r.batch_cache.buf[b].st = "filled" =>
                        \A s \in BatchBuffers(b) : r.batch_cache.buf[s].st = "filled"

\* A pass in which all four batches were requested has just returned: it
\* wrote all seven buffers and every batch is built.
C9_Witness ==
  /\ ret.op = "create_requested"
  /\ ret.flag
  /\ ret.slots = EditBuffers
  /\ \A s \in EditSlots : Cache.buf[s].st = "filled"
(***************************************************************************)
(* Properties of the position / parameter buffer.                          *)
(***************************************************************************)
\* C10: once every curve is filled, the buffer holds one record per point in
\* global point order with the source position; on a curve with at least
\* two points and total length > 0 the parameter is 0 at the first point,
\* exactly 1 at the last point and non-decreasing along the curve; on a
\* curve of total length 0 every parameter is 0 and the stored length is 0.
C10_PositionParameter ==
  fill.todo = {} =>
    /\ Len(fill.posTime_data) = points_total(fill.curve_positions)
    /\ \A c \in 1 .. Len(fill.curve_positions) :
         LET points == fill.curve_positions[c]
             n == Len(points)
             start == curve_start(fill.curve_positions, c)
             total_len == cumulative_len(points, n)
             par(i) == fill.posTime_data[start + i].parameter
         IN /\ \A i \in 1 .. n : fill.posTime_data[start + i].position = points[i]
            /\ fill.hairLength_data[c] = total_len
            /\ (n >= 2 /\ total_len > 0) =>
                 /\ par(1) = F32Zero
                 /\ par(n) = F32One
                 /\ \A i \in 1 .. n - 1 : F32LessEq(par(i), par(i + 1))
            /\ total_len = 0 => \A i \in 1 .. n : par(i) = F32Zero
(***************************************************************************)
(* Properties of the per-curve offsets and the line index buffers.         *)
(***************************************************************************)
\* C11: once the loop is over, the start buffer holds for every curve the
\* global index of its first point and the segment buffer holds its point
\* count minus one, whatever the point count.
C11_OffsetsAndSegments ==
  Len(build.data_step) = curves_num_of(build.points_by_curve) =>
    \A c \in 0 .. curves_num_of(build.points_by_curve) - 1 :
      /\ build.data_step[c + 1] = build.points_by_curve[c + 1]
      /\ build.seg_step[c + 1] = points_of(build.points_by_curve, c).size - 1
BuildCurves == 0 .. curves_num_of(build.points_by_curve) - 1
BuildDone(variant) == build.variant = variant /\ build.todo = {}

\* The slots of the range of the given size that starts at start.
RangeSlots(start, size) == start .. start + size - 1

\* C12: the buffer of the non-cyclic builder has pointCount + curveCount
\* slots; the range of curve c with points [s, s+n) starts at s + c, has
\* n + 1 slots, holds s .. s+n-1 in order and then one restart index; the
\* ranges are pairwise disjoint and cover the buffer.
C12_LinesNoCyclic ==
  BuildDone("no_cyclic") =>
    LET range(c) == RangeSlots(build.points_by_curve[c + 1] + c,
                               points_of(build.points_by_curve, c).size + 1)
    IN /\ DOMAIN build.ibo_data =
            0 .. total_size(build.points_by_curve) + curves_num_of(build.points_by_curve) - 1
       /\ \A c \in BuildCurves :
            LET s == build.points_by_curve[c + 1]
                n == points_of(build.points_by_curve, c).size
            IN /\ \A i \in 0 .. n - 1 : build.ibo_data[s + c + i] = s + i
               /\ build.ibo_data[s + c + n] = RESTART_INDEX
       /\ \A c, d \in BuildCurves : c # d => range(c) \cap range(d) = {}
       /\ UNION {range(c) : c \in BuildCurves} = DOMAIN build.ibo_data

\* The non-cyclic builder has finished three curves, one of a single point.
C12_Witness ==
  /\ BuildDone("no_cyclic")
  /\ curves_num_of(build.points_by_curve) = 3
  /\ \E c \in BuildCurves : points_of(build.points_by_curve, c).size = 1
  /\ \E c \in BuildCurves : points_of(build.points_by_curve, c).size = 3

\* C13: the buffer of the cyclic-aware builder has pointCount + 2 curveCount
\* slots; the range of curve c with points [s, s+n) starts at s + 2c, has
\* n + 2 slots, holds s .. s+n-1 in order, then s if the curve is cyclic and
\* a restart index otherwise, then a restart index; the ranges are pairwise
\* disjoint and cover the buffer.
C13_LinesWithCyclic ==
  BuildDone("with_cyclic") =>
    LET range(c) == RangeSlots(build.points_by_curve[c + 1] + 2 * c,
                               points_of(build.points_by_curve, c).size + 2)
    IN /\ DOMAIN build.ibo_data =
            0 .. total_size(build.points_by_curve)
                   + 2 * curves_num_of(build.points_by_curve) - 1
       /\ \A c \in BuildCurves :
            LET s == build.points_by_curve[c + 1]
                n == points_of(build.points_by_curve, c).size
            IN /\ \A i \in 0 .. n - 1 : build.ibo_data[s + 2 * c + i] = s + i
               /\ build.ibo_data[s + 2 * c + n] =
                    (IF build.cyclic[c + 1] THEN s ELSE RESTART_INDEX)
               /\ build.ibo_data[s + 2 * c + n + 1] = RESTART_INDEX
       /\ \A c, d \in BuildCurves : c # d => range(c) \cap range(d) = {}
       /\ UNION {range(c) : c \in BuildCurves} = DOMAIN build.ibo_data

\* The cyclic-aware builder has finished a cyclic and a non-cyclic curve.
C13_Witness ==
  /\ BuildDone("with_cyclic")
  /\ curves_num_of(build.points_by_curve) = 3
  /\ \E c, d \in BuildCurves : build.cyclic[c + 1] /\ ~build.cyclic[d + 1]

\* The loop-closing slot of every curve in the cyclic-aware layout.
ClosingSlots(offsets) ==
  {offsets[c + 1] + 2 * c + points_of(offsets, c).size : c \in 0 .. curves_num_of(offsets) - 1}

\* The index sequence left when the slots of S are taken out of data.
WithoutSlots(data, S) ==
  LET Kept == DOMAIN data \ S
  IN [j \in 0 .. Cardinality(Kept) - 1 |->
        data[CHOOSE i \in Kept : Cardinality({k \in Kept : k < i}) = j]]

\* C14: the VArray overload takes the non-cyclic builder exactly when no
\* curve is cyclic, and what that builder then produces is the sequence of
\* the cyclic-aware builder without the loop-closing slot of each curve.
C14_DispatchEquivalent ==
  (build.dispatched /\ build.variant # "none") =>
    /\ (build.variant = "no_cyclic") = (\A c \in BuildCurves : ~build.cyclic[c + 1])
    /\ (build.variant = "no_cyclic" /\ build.todo = {}) =>
         build.ibo_data =
           WithoutSlots(create_lines_ibo_with_cyclic(build).ibo_data,
                        ClosingSlots(build.points_by_curve))

\* The overload took the non-cyclic builder for three curves, none cyclic,
\* and the builder has finished.
C14_Witness ==
  /\ build.dispatched
  /\ BuildDone("no_cyclic")
  /\ curves_num_of(build.points_by_curve) = 3
  /\ \E c \in BuildCurves : points_of(build.points_by_curve, c).size = 2
(***************************************************************************)
(* Properties of attribute reconciliation and eviction.                    *)
(***************************************************************************)
Clean == Cache # NULL /\ ~Cache.is_dirty
AttrBuffers(c) == NonNull(c) \cap AttrSlots
LaterTimes == now + 1 .. MaxTime

\* C15: a second reconcile pass with the same material and settings right
\* after the first allocates nothing, discards nothing, leaves attr_used as
\* it is and reports no update.
C15_ReconcileIdempotent ==
  \A m \in AttrMaterials, set \in AttrSettings :
    LET first == curves_ensure_procedural_data(Begin, m, set[1], set[2])
        second == curves_ensure_procedural_data(Call(End(first.cv)), m, set[1], set[2])
    IN /\ second.cv.made = {}
       /\ second.cv.freed = {}
       /\ second.cv.batch_cache.attr_used = first.cv.batch_cache.attr_used
       /\ ~second.need

\* C16: when the set derived from the material has an attribute that is not
\* in attr_used, ensure_attributes releases the procedural and final buffer
\* of every slot and builds the buffers of every request of attr_used, old
\* and new, in that pass; when the derived set is within attr_used it
\* releases no attribute buffer and leaves the existing ones as they are.
C16_AllOrNothingRefresh ==
  Clean =>
    \A m \in AttrMaterials \ {NoMaterial} :
      LET needed == attrs_needed(m.attrs)
          r == ensure_attributes(Begin, m).cv
          used == r.batch_cache.attr_used
      IN IF ~(NamesOf(needed) \subseteq UsedNames(curves))
           THEN /\ AttrBuffers(curves) \subseteq r.freed
                /\ \A i \in AttrIndex :
                     IF i < Len(used)
                       THEN /\ ProcAttr(i) \in r.made
                            /\ r.batch_cache.buf[ProcAttr(i)].st = "filled"
                            /\ r.batch_cache.buf[ProcAttr(i)].of = used[i + 1].attribute_name
                            /\ (used[i + 1].domain = "Point") = (FinalAttr(i) \in r.made)
                            /\ (used[i + 1].domain = "Point") =
                                 (r.batch_cache.buf[FinalAttr(i)].st = "filled")
                       ELSE /\ r.batch_cache.buf[ProcAttr(i)] = NullBuf
                            /\ r.batch_cache.buf[FinalAttr(i)] = NullBuf
           ELSE /\ r.freed = {}
                /\ used = Cache.attr_used
                /\ \A s \in AttrBuffers(curves) :
                     r.batch_cache.buf[s] = Cache.buf[s] /\ s \notin r.made

\* A pass has just released the buffers of an attribute requested earlier
\* and built them again together with those of a new attribute.
C16_Witness ==
  /\ ret.op = "ensure_procedural_data"
  /\ {ProcAttr(0), FinalAttr(0)} \subseteq ret.freed
  /\ {ProcAttr(0), FinalAttr(0), ProcAttr(1)} \subseteq ret.slots
  /\ Len(Cache.attr_used) = 2
  /\ Cache.attr_used[2].domain = "Curve"

\* C17 as stated: when the derived set is not within attr_used, attr_used
\* holds exactly the derived attributes after the pass, and an attribute
\* that was only in the previous set is no longer materialized.
C17_NewSetReplaces ==
  Clean =>
    \A m \in AttrMaterials \ {NoMaterial} :
      LET needed == attrs_needed(m.attrs)
          r == ensure_attributes(Begin, m).cv
      IN ~(NamesOf(needed) \subseteq UsedNames(curves)) =>
           /\ NamesOf(r.batch_cache.attr_used) = NamesOf(needed)
           /\ \A s \in AttrSlots :
                r.batch_cache.buf[s].st # "null" => r.batch_cache.buf[s].of \in NamesOf(needed)

\* C17 amended: when the derived set is not within attr_used, the pass keeps
\* every previous request in its slot, appends the derived attributes that
\* were missing as far as the slots allow, and builds the buffers of the
\* previous attributes again.
C17_NewSetMerged ==
  Clean =>
    \A m \in AttrMaterials \ {NoMaterial} :
      LET needed == attrs_needed(m.attrs)
          r == ensure_attributes(Begin, m).cv
          before == Cache.attr_used
          used == r.batch_cache.attr_used
      IN ~(NamesOf(needed) \subseteq UsedNames(curves)) =>
           /\ Len(used) >= Len(before) /\ Len(used) <= MaxAttr
           /\ SubSeq(used, 1, Len(before)) = before
           /\ NamesOf(used) \subseteq UsedNames(curves) \cup NamesOf(needed)
           /\ Len(used) < MaxAttr => NamesOf(needed) \subseteq NamesOf(used)
           /\ \A i, j \in 1 .. Len(used) : used[i] = used[j] => i = j
           /\ \A i \in 1 .. Len(before) :
                /\ ProcAttr(i - 1) \in r.made
                /\ r.batch_cache.buf[ProcAttr(i - 1)].of = before[i].attribute_name

\* A pass for a new attribute has just run: the attribute requested before,
\* and not in this frame, is still the first request and has its buffers.
C17_Witness ==
  /\ ret.op = "ensure_procedural_data"
  /\ ProcAttr(0) \in ret.freed /\ ProcAttr(0) \in ret.slots
  /\ Len(Cache.attr_used) = 2
  /\ Cache.attr_used[1].attribute_name \notin OverTimeNames(curves)
  /\ Cache.attr_used[2].attribute_name \in OverTimeNames(curves)
  /\ Cache.buf[ProcAttr(0)].of = Cache.attr_used[1].attribute_name

\* The time of the last frame advance at which attribute n was still
\* requested, when the clock moves to ctime.
LastRequested(n, ctime) ==
  IF n \in OverTimeNames(curves) THEN ctime ELSE requested_at[n]

C19_EvictsOnlyUnrequested ==
  Cache # NULL =>
    \A ctime \in LaterTimes :
      LET r == DRW_curves_batch_cache_free_old(Begin, ctime)
      IN \A i \in 1 .. Len(Cache.attr_used) :
           Cache.attr_used[i].attribute_name \in OverTimeNames(curves) =>
             /\ ProcAttr(i - 1) \notin r.freed
             /\ FinalAttr(i - 1) \notin r.freed
             /\ Cache.attr_used[i].attribute_name \in NamesOf(r.batch_cache.attr_used)
\* C20: when two consumers alternate between two attribute sets, one
\* reconcile pass and one frame advance per frame, then once both sets are
\* materialized no later pass and no later frame advance releases or
\* allocates an attribute buffer.
C20_NoThrashing ==
  alt.settled =>
    IF alt.advance
      THEN now < MaxTime =>
             DRW_curves_batch_cache_free_old(Begin, now + 1).freed \cap AttrSlots = {}
      ELSE LET r == curves_ensure_procedural_data(Begin, Material(alt.sets[alt.turn + 1]),
                                                  0, 1).cv
           IN r.freed \cap AttrSlots = {} /\ r.made \cap AttrSlots = {}
(***************************************************************************)
(* Properties of the attribute slots.                                      *)
(***************************************************************************)
\* The slots of the attribute tiers that belong to request i of attr_used.
SlotsOfRequest(i) == {ProcAttr(i), FinalAttr(i)}

\* C21 as stated: an attribute slot is non-null only if its attribute has
\* been requested since the last frame advance, and the occupancy of the
\* attribute slots changes only in a reconcile pass or in the eviction step.
C21_OccupiedOnlyWhileRequested ==
  /\ [](Cache # NULL =>
          \A i \in AttrIndex : \A s \in SlotsOfRequest(i) :
            Cache.buf[s].st # "null" =>
              /\ i < Len(Cache.attr_used)
              /\ Cache.attr_used[i + 1].attribute_name \in OverTimeNames(curves))
  /\ [][AttrBuffers(curves') # AttrBuffers(curves) =>
          ret'.op \in {"ensure_procedural_data", "free_old"}]_vars

\* C21 amended: an attribute slot is non-null only if it is the slot of a
\* request of attr_used and was built for the attribute of that request,
\* whether or not the attribute is still asked for; the occupancy of the
\* attribute slots changes only in a reconcile pass, in the eviction step,
\* when the cache is freed, and when a call validates a tagged cache, which
\* empties every slot.
C21_OccupiedOnlyWhileUsed ==
  /\ [](Cache # NULL =>
          \A i \in AttrIndex : \A s \in SlotsOfRequest(i) :
            Cache.buf[s].st # "null" =>
              /\ i < Len(Cache.attr_used)
              /\ Cache.buf[s].of = Cache.attr_used[i + 1].attribute_name)
  /\ [][AttrBuffers(curves') # AttrBuffers(curves) =>
          \/ ret'.op \in {"ensure_procedural_data", "free_old", "free"}
          \/ Cache # NULL /\ Cache.is_dirty /\ AttrBuffers(curves') = {}]_vars

\* A frame advance has just kept the buffers of an attribute that nobody
\* asked for since the advance before.
C21_Witness ==
  /\ ret.op = "free_old"
  /\ ret.freed = {}
  /\ Cache # NULL
  /\ Cache.buf[ProcAttr(0)].st = "filled"
  /\ OverTimeNames(curves) = {}
  /\ now > 1
\* C22: after the pass over attr_used, every request has its procedural
\* buffer, filled from the attribute of its name with one record per point
\* or per curve (from the default when there is no such attribute), and has
\* a final buffer exactly when its domain is Point; the pass reports an
\* update exactly when it allocated the final buffer of a Point request.
C22_SlotsMaterialized ==
  Clean =>
    /\ \A m \in AttrMaterials :
         LET r == ensure_attributes(Begin, m)
             used == r.cv.batch_cache.attr_used
             buf == r.cv.batch_cache.buf
         IN /\ \A i \in 0 .. Len(used) - 1 :
                 /\ buf[ProcAttr(i)] =
                      FilledBuf(IF used[i + 1].domain = "Point"
                                  THEN curves.geometry.points_num
                                  ELSE curves.geometry.curves_num,
                                lookup_or_default(used[i + 1].attribute_name))
                 /\ (buf[FinalAttr(i)].st # "null") = (used[i + 1].domain = "Point")
            /\ r.need = (\E i \in 0 .. Len(used) - 1 :
                           used[i + 1].domain = "Point" /\ FinalAttr(i) \in r.cv.made)
    /\ \A name \in AttrNames, i \in AttrIndex :
         LET c == ensure_final_attribute(GPU_DISCARD_SAFE(Begin, SlotsOfRequest(i)),
                                         Request(name), i)
         IN /\ c.batch_cache.buf[ProcAttr(i)].st = "filled"
            /\ c.batch_cache.buf[ProcAttr(i)].of =
                 (IF name \in {"p", "q", "c"} THEN name ELSE "default")
            /\ (c.batch_cache.buf[FinalAttr(i)].st # "null") = (Request(name).domain = "Point")

\* A pass has just built the buffers of a Point request and of a Curve
\* request and reported an update.
C22_Witness ==
  /\ ret.op = "ensure_procedural_data"
  /\ ret.flag
  /\ Len(Cache.attr_used) = 2
  /\ Cache.attr_used[1].domain = "Point" /\ Cache.attr_used[2].domain = "Curve"
  /\ {ProcAttr(0), FinalAttr(0), ProcAttr(1)} \subseteq ret.slots
  /\ Cache.buf[FinalAttr(1)].st = "null"
(***************************************************************************)
(* Properties of the edit buffers.  The layout is stated from the geometry *)
(* alone: P points, B of them on Bezier curves.                            *)
(***************************************************************************)
EditCurves == 0 .. curves_num_of(edit.points_by_curve) - 1
BezierCurves == {c \in EditCurves : edit.curve_types[c + 1] = "Bezier"}
StartOf(c) == edit.points_by_curve[c + 1]
SizeOf(c) == edit.points_by_curve[c + 2] - edit.points_by_curve[c + 1]
RECURSIVE SumSizes(_)
SumSizes(S) == IF S = {} THEN 0
               ELSE LET c == CHOOSE c \in S : TRUE IN SizeOf(c) + SumSizes(S \ {c})
EditP == SumSizes(EditCurves)
EditB == SumSizes(BezierCurves)
\* The slots of the handles of point k of Bezier curve c.
LeftSlot(c, k) == EditP + SumSizes({d \in BezierCurves : d < c}) + k
RightSlot(c, k) == EditP + EditB + SumSizes({d \in BezierCurves : d < c}) + k
ActiveAt(q) ==
  edit.selection[q] \/ edit.selection_handle_left[q] \/ edit.selection_handle_right[q]
Float(flag) == IF flag THEN 1 ELSE 0

\* C23: the position, bitfield and selection buffers have P + 2B records:
\* the points first, then the left handles, then the right handles, the
\* handles of point k of a Bezier curve at (points of the Bezier curves
\* before it) + k of their block.
C23_EditLayout ==
  edit.step \in {"selection", "handles_ibo"} =>
    /\ DOMAIN edit.pos = 0 .. EditP + 2 * EditB - 1
    /\ DOMAIN edit.data = 0 .. EditP + 2 * EditB - 1
    /\ DOMAIN edit.sel = 0 .. EditP + 2 * EditB - 1
    /\ \A q \in 0 .. EditP - 1 :
         /\ edit.pos[q] = <<"position", q>>
         /\ edit.sel[q] = Float(edit.selection[q])
         /\ edit.data[q] >= 0 /\ Bit(edit.data[q], 1) = 0
    /\ \A c \in BezierCurves : \A k \in 0 .. SizeOf(c) - 1 :
         LET q == StartOf(c) + k
         IN /\ edit.pos[LeftSlot(c, k)] = <<"handle_left", q>>
            /\ edit.pos[RightSlot(c, k)] = <<"handle_right", q>>
            /\ edit.sel[LeftSlot(c, k)] = Float(edit.selection_handle_left[q])
            /\ edit.sel[RightSlot(c, k)] = Float(edit.selection_handle_right[q])
            /\ edit.data[LeftSlot(c, k)] =
                 bezier_data_value(edit.handle_types_left[q], ActiveAt(q))
            /\ edit.data[RightSlot(c, k)] =
                 bezier_data_value(edit.handle_types_right[q], ActiveAt(q))

\* The three buffers are built for a Bezier curve of two points, another
\* curve and a second Bezier curve.
C23_Witness ==
  /\ edit.step = "selection"
  /\ Len(edit.curve_types) = 3
  /\ edit.curve_types[1] = "Bezier" /\ SizeOf(0) = 2
  /\ edit.curve_types[2] = "Nurbs"
  /\ edit.curve_types[3] = "Bezier"
  /\ edit.pos[LeftSlot(2, 0)] = <<"handle_left", StartOf(2)>>

C25_HandleTypeTwice ==
  edit.step \in {"position_and_data", "selection", "handles_ibo"} =>
    \A c \in BezierCurves : \A k \in 0 .. SizeOf(c) - 1 :
      LET q == StartOf(c) + k
          left == edit.data[LeftSlot(c, k)]
          right == edit.data[RightSlot(c, k)]
      IN /\ (left \div 16) % 4 = edit.handle_types_left[q]
         /\ (left \div 64) % 4 = edit.handle_types_left[q]
         /\ (right \div 16) % 4 = edit.handle_types_right[q]
         /\ (right \div 64) % 4 = edit.handle_types_right[q]

\* The segments of the handle wire index buffer, and the segments the
\* geometry calls for.
HandleSegments ==
  {<<edit.handles_ibo[2 * i], edit.handles_ibo[2 * i + 1]>> :
     i \in 0 .. (Cardinality(DOMAIN edit.handles_ibo) \div 2) - 1}
BezierSegmentsOf(c) ==
  UNION {{<<LeftSlot(c, k), StartOf(c) + k>>, <<RightSlot(c, k), StartOf(c) + k>>} :
           k \in 0 .. SizeOf(c) - 1}
OtherSegmentsOf(c) ==
  {<<q, q + 1>> : q \in StartOf(c) .. StartOf(c) + SizeOf(c) - 2} \cup
  (IF edit.cyclic[c + 1] /\ SizeOf(c) >= 3
     THEN {<<StartOf(c), StartOf(c) + SizeOf(c) - 1>>} ELSE {})
ExpectedSegments ==
  UNION {BezierSegmentsOf(c) : c \in BezierCurves} \cup
  UNION {OtherSegmentsOf(c) : c \in EditCurves \ BezierCurves}

\* C26: the handle wire index buffer holds, for every Bezier point, the
\* segment from its left handle and the segment from its right handle,
\* named by the slots where the position buffer has these handles; for
\* every other curve of two points or more a segment per pair of
\* consecutive points, and one between the first and the last point when
\* the curve is cyclic and has three points or more; and nothing else.
C26_HandleWires ==
  edit.step = "handles_ibo" =>
    /\ HandleSegments = ExpectedSegments
    /\ Cardinality(DOMAIN edit.handles_ibo) = 2 * Cardinality(ExpectedSegments)
    /\ \A c \in BezierCurves : \A k \in 0 .. SizeOf(c) - 1 :
         /\ edit.pos[LeftSlot(c, k)] = <<"handle_left", StartOf(c) + k>>
         /\ edit.pos[RightSlot(c, k)] = <<"handle_right", StartOf(c) + k>>

\* The wires are built for a cyclic curve of three points followed by a
\* Bezier curve.
C26_Witness ==
  /\ edit.step = "handles_ibo"
  /\ Len(edit.curve_types) >= 2
  /\ edit.curve_types[1] = "Poly" /\ SizeOf(0) = 3 /\ edit.cyclic[1]
  /\ edit.curve_types[2] = "Bezier"
  /\ <<0, 2>> \in HandleSegments
  /\ <<LeftSlot(1, 0), 3>> \in HandleSegments

(***************************************************************************)
(* Properties of the buffer sizes.                                         *)
(***************************************************************************)
\* The vertex buffers of the evaluated data.
VertexBuffers == TopologySlots \cup ProcAttrSlots \cup FinalAttrSlots \cup {<<"final.proc_buf", 0>>}

\* C27: every buffer the cache allocates is non-null and has at least one
\* record, even when its computed size is zero: the final point buffer, the
\* final attribute buffers, the procedural attribute buffers and the topology
\* buffers alike.
C27_AtLeastOneRecord ==
  curves.batch_cache # NULL =>
    \A s \in VertexBuffers :
      curves.batch_cache.buf[s].st = "filled" => curves.batch_cache.buf[s].len >= 1


(***************************************************************************)
(* Properties of concurrent passes.                                        *)
(***************************************************************************)
\* The number of times a request is in a list.
TimesIn(attrs, req) == Cardinality({i \in 1 .. Len(attrs) : attrs[i] = req})

\* Every pass has returned.
PassesDone == passes # NoPass /\ \A k \in DOMAIN passes : passes[k].pc = "done"

\* attr_used has every attribute of both passes exactly once.
AttrUsedHasBoth ==
  PassesDone =>
    \A k \in DOMAIN passes : \A n \in 1 .. Len(passes[k].needed) :
      TimesIn(curves.batch_cache.attr_used, passes[k].needed[n]) = 1

\* The same, for requests that fit into attr_used together with the earlier ones.
AttrUsedHasBothThatFit ==
  PassesDone =>
    \A k \in DOMAIN passes : \A n \in 1 .. Len(passes[k].needed) :
      \/ TimesIn(curves.batch_cache.attr_used, passes[k].needed[n]) = 1
      \/ Len(curves.batch_cache.attr_used) = MaxAttr

\* C28: the merges are done under render_mutex, so that when two consumers
\* run reconcile passes concurrently, under every interleaving attr_used ends
\* up with every attribute of both requests exactly once, and no attribute
\* buffer one pass has materialized for its request is discarded by the other
\* pass before the first pass returns.
C28_ConcurrentPasses ==
  /\ AttrUsedHasBoth
  /\ \A k \in DOMAIN passes : ~passes[k].lost

\* No materialized buffer is lost to the other pass.
NoBufferLost == \A k \in DOMAIN passes : ~passes[k].lost


(***************************************************************************)
(* Properties of the attribute accessor.                                   *)
(***************************************************************************)
\* What the accessor called with name on the valid cache does for an
\* attribute of the geometry: the request is in attr_used, nothing is
\* discarded, the earlier requests keep their index, and the slot of the
\* request comes back with its domain.
TextureOfAttribute(name) ==
  LET r == DRW_curves_texture_for_evaluated_attribute(Begin, name)
      before == Cache.attr_used
      after == r.cv.batch_cache.attr_used
  IN /\ r.cv.freed = {}
     /\ Len(after) >= Len(before)
     /\ \A i \in 1 .. Len(before) : after[i] = before[i]
     /\ \E i \in 1 .. Len(after) :
          /\ after[i] = Request(name)
          /\ r.slots = {IF AttrDomainOf(name) = "Point" THEN FinalAttr(i - 1) ELSE ProcAttr(i - 1)}
          /\ r.is_point_domain = (AttrDomainOf(name) = "Point")

\* What it does for a name that is neither an attribute nor in attr_used.
TextureOfUnknown(name) ==
  LET r == DRW_curves_texture_for_evaluated_attribute(Begin, name)
  IN /\ r.slots = {}
     /\ ~r.is_point_domain
     /\ r.cv.batch_cache = Cache
     /\ r.cv.freed = {} /\ r.cv.made = {}

\* C30: the accessor adds an attribute of the geometry to attr_used, without
\* discarding a buffer or moving a request, and returns the slot of the
\* request (final buffer and is_point_domain for a Point attribute,
\* procedural buffer and not is_point_domain for a Curve attribute); for a
\* name that is neither an attribute nor in attr_used it returns null and
\* false and changes nothing.
C30_TextureForAttribute ==
  Clean =>
    \A name \in AttrNames :
      /\ HasAttribute(name) => TextureOfAttribute(name)
      /\ (~HasAttribute(name) /\ name \notin UsedNames(curves)) => TextureOfUnknown(name)

\* The same while attr_used has room for the request.
TextureForAttributeWithRoom ==
  Clean =>
    \A name \in AttrNames :
      /\ (HasAttribute(name) /\ (name \in UsedNames(curves) \/ Len(Cache.attr_used) < MaxAttr))
           => TextureOfAttribute(name)
      /\ (~HasAttribute(name) /\ name \notin UsedNames(curves)) => TextureOfUnknown(name)


(***************************************************************************)
(* Properties of the parallel routines.                                    *)
(***************************************************************************)
\* The records of posTime_data that belong to curve c (1-based).
FillRange(c) ==
  curve_start(fill.curve_positions, c) + 1 ..
    curve_start(fill.curve_positions, c) + Len(fill.curve_positions[c])

\* The slots of ibo_data that belong to a curve: its points and one restart
\* index, or two slots more with the closing index.
LinesRange(curve) ==
  LET points == points_of(build.points_by_curve, curve)
      extra == IF build.variant = "no_cyclic" THEN 1 ELSE 2
  IN points.start + curve * extra .. points.start + curve * extra + points.size + extra - 1

\* What slot j of the range of a curve holds once the curve is done, from the
\* points and the flag of that curve alone.
LinesExpected(curve, j) ==
  LET points == points_of(build.points_by_curve, curve)
      extra == IF build.variant = "no_cyclic" THEN 1 ELSE 2
      k == j - (points.start + curve * extra)
  IN IF k < points.size THEN points.start + k
     ELSE IF extra = 2 /\ k = points.size /\ build.cyclic[curve + 1] THEN points.start
     ELSE RESTART_INDEX

FillTasks == 1 .. Len(fill.curve_positions)
LinesTasks == 0 .. curves_num_of(build.points_by_curve) - 1

\* C29: the parallel per-curve routines give the same contents under every
\* order of the tasks: whatever tasks have run, the slots of a curve that is
\* done hold what its own points give, the slots of a curve still to do are
\* as allocated, and every slot belongs to exactly one curve.
C29_OrderIndependent ==
  /\ \A i \in DOMAIN fill.posTime_data :
       Cardinality({c \in FillTasks : i \in FillRange(c)}) = 1
  /\ \A c \in FillTasks :
       /\ \A i \in FillRange(c) :
            fill.posTime_data[i] =
              IF c \in fill.todo THEN Unwritten
              ELSE curve_posTime(fill.curve_positions[c])[i - curve_start(fill.curve_positions, c)]
       /\ fill.hairLength_data[c] =
            IF c \in fill.todo THEN 0 - 1
            ELSE cumulative_len(fill.curve_positions[c], Len(fill.curve_positions[c]))
  /\ build.variant # "none" =>
       /\ \A j \in DOMAIN build.ibo_data :
            Cardinality({curve \in LinesTasks : j \in LinesRange(curve)}) = 1
       /\ \A curve \in LinesTasks : \A j \in LinesRange(curve) :
            build.ibo_data[j] = IF curve \in build.todo THEN UnwrittenIndex
                                ELSE LinesExpected(curve, j)

\* The second of two curves has been filled before the first.
C29_Witness ==
  /\ Len(fill.curve_positions) = 2
  /\ fill.todo = {1}
  /\ fill.posTime_data[Len(fill.posTime_data)] # Unwritten


(***************************************************************************)
(* Properties of the two attribute sets.                                   *)
(***************************************************************************)
\* The requests of a list, as a set.
RequestsOf(attrs) == {attrs[i] : i \in 1 .. Len(attrs)}

\* C31: a frame advance sets last_attr_matching_time to the current time
\* exactly when attr_used and attr_used_over_time are equal as sets, leaves it
\* as it is otherwise, and empties attr_used_over_time whether or not it
\* evicts.
C31_MatchingTime ==
  Cache # NULL =>
    \A ctime \in LaterTimes :
      LET r == DRW_curves_batch_cache_free_old(Begin, ctime)
          coincide == RequestsOf(Cache.attr_used) = RequestsOf(Cache.attr_used_over_time)
      IN /\ r.batch_cache.last_attr_matching_time =
              IF coincide THEN ctime ELSE Cache.last_attr_matching_time
         /\ r.batch_cache.attr_used_over_time = <<>>

\* A frame advance that found the two sets different and did not evict.
C31_Witness ==
  /\ Cache # NULL
  /\ ret.op = "free_old"
  /\ Cache.attr_used # <<>>
  /\ Cache.last_attr_matching_time < now
  /\ Cache.attr_used_over_time = <<>>


\* C32: in every reachable state attr_used_over_time is a subset of attr_used.
C32_OverTimeWithinUsed ==
  Cache # NULL => RequestsOf(Cache.attr_used_over_time) \subseteq RequestsOf(Cache.attr_used)

\* The same while attr_used is not full.
OverTimeWithinUsedWithRoom ==
  (Cache # NULL /\ Len(Cache.attr_used) < MaxAttr) =>
    RequestsOf(Cache.attr_used_over_time) \subseteq RequestsOf(Cache.attr_used)


\* The number of records of a procedural attribute buffer of a domain.
DomainSize(domain) ==
  IF domain = "Point" THEN curves.geometry.points_num ELSE curves.geometry.curves_num

\* C33: a non-null procedural or final attribute buffer at slot i was
\* materialized for the request stored at attr_used[i], same name and domain,
\* and every slot from attr_used.num_requests on is null.
C33_SlotsAligned ==
  Cache # NULL =>
    \A i \in AttrIndex :
      IF i >= Len(Cache.attr_used)
        THEN Cache.buf[ProcAttr(i)].st = "null" /\ Cache.buf[FinalAttr(i)].st = "null"
        ELSE LET request == Cache.attr_used[i + 1]
             IN /\ Cache.buf[ProcAttr(i)].st # "null" =>
                     /\ Cache.buf[ProcAttr(i)].of = request.attribute_name
                     /\ Cache.buf[ProcAttr(i)].len = DomainSize(request.domain)
                /\ Cache.buf[FinalAttr(i)].st # "null" =>
                     /\ Cache.buf[FinalAttr(i)].of = request.attribute_name
                     /\ request.domain = "Point"

\* An accessor call has appended a request behind a materialized one.
C33_Witness ==
  /\ Cache # NULL
  /\ ret.op = "texture_for_evaluated_attribute"
  /\ Len(Cache.attr_used) = 2
  /\ Cache.buf[ProcAttr(0)].st = "filled"
  /\ Cache.buf[ProcAttr(1)].st = "null"
  /\ ret.slots = {FinalAttr(1)}


(***************************************************************************)
(* Properties of the two handle index builders.                            *)
(***************************************************************************)
\* The indices written, as a set of slots.
HandleSlots == DOMAIN edit.handles_ibo

\* The layout of the shared allocation: left handles, right handles, then
\* the segments of the other curves.
HandleBlocks ==
  /\ edit.elb_len = 2 * EditB
  /\ \A i \in HandleSlots :
       IF i < 2 * EditB
         THEN i % 2 = 0 => edit.handles_ibo[i] \in EditP .. EditP + EditB - 1
       ELSE IF i < 4 * EditB
         THEN i % 2 = 0 => edit.handles_ibo[i] \in EditP + EditB .. EditP + 2 * EditB - 1
       ELSE edit.handles_ibo[i] \in 0 .. EditP - 1

\* C34: the two builders of calc_edit_handles_ibo never overlap and never
\* overflow their allocation: left-handle segments fill [0, 2B), right-handle
\* segments [2B, 4B), the other segments start at 4B, no slot is written
\* twice and no more than index_len indices are written, for every mix of
\* curves, curves of one point, of two points and cyclic, and of no point
\* included.
C34_BuildersDisjoint ==
  edit.step = "handles_ibo" =>
    /\ HandleBlocks
    /\ ~edit.twice
    /\ Cardinality(HandleSlots) <= edit.index_len

\* The same for geometries whose curves of other types have a point.
BuildersDisjointWithPoints ==
  (edit.step = "handles_ibo"
   /\ \A c \in 1 .. Len(edit.curve_types) :
        edit.curve_types[c] # "Bezier" =>
          edit.points_by_curve[c + 1] > edit.points_by_curve[c]) =>
    /\ HandleBlocks
    /\ ~edit.twice
    /\ Cardinality(HandleSlots) <= edit.index_len


(***************************************************************************)
(* Properties of attributes requested in every frame.                      *)
(***************************************************************************)
\* The attributes requested in every frame so far, this one included.
RequestedEveryFrame == frame.always \cap frame.requested

\* A frame advance to ctime keeps the attributes of the set N in attr_used,
\* with their buffers.
KeepsAttributes(N, ctime) ==
  LET r == DRW_curves_batch_cache_free_old(Begin, ctime)
  IN \A i \in 1 .. Len(Cache.attr_used) :
       Cache.attr_used[i].attribute_name \in N =>
         /\ Cache.attr_used[i].attribute_name \in NamesOf(r.batch_cache.attr_used)
         /\ ProcAttr(i - 1) \notin r.freed
         /\ FinalAttr(i - 1) \notin r.freed

\* C35: an attribute that is requested again in every frame, by a reconcile
\* pass or by the accessor, is never evicted: no frame advance removes it
\* from attr_used or discards its buffers, however much time passes.
C35_RequestedEveryFrameKept ==
  Cache # NULL => \A ctime \in LaterTimes : KeepsAttributes(RequestedEveryFrame, ctime)

\* The same when every attribute of attr_used was requested by a reconcile
\* pass since the last frame advance.
KeptWhenAllRequestedByMaterial ==
  (Cache # NULL /\ UsedNames(curves) \subseteq OverTimeNames(curves)) =>
    \A ctime \in LaterTimes : KeepsAttributes(RequestedEveryFrame, ctime)

====
